---- MODULE Spec2Model ----
(***************************************************************************)
(* NeuroChat (src/neurochat.py): the recommendation orchestrator            *)
(* neurochat_product_search, its source adapters, the Pattern Store         *)
(* (table successful_patterns), the Analytics Sink (table                   *)
(* recommendation_analytics), the emotion classifier detect_emotion and     *)
(* the feedback recorder save_product_feedback (table product_feedback).    *)
(*                                                                         *)
(* Text is a sequence of one-character strings, so that strip(), split(),  *)
(* lower() and LIKE are computed and not assumed.  A product is a record    *)
(* holding the source tag its adapter gave it.  What the outside world      *)
(* answers (database, catalogs, completion service, web search) is chosen   *)
(* nondeterministically at the step that asks.                              *)
(***************************************************************************)
EXTENDS Integers, Sequences, FiniteSets, TLC

\* ------------------------------------------------------------------ bounds
\* The most items one upstream response carries.
MaxUp == 4
\* The largest success_count of a row the orchestrator starts with.
MaxCount == 3
\* The number of concurrent sessions giving feedback.
NumProcs == 2
\* The most save_successful_pattern calls in one behaviour.
MaxSaves == 3
\* The most items a source sends back when an adapter is called on its own.
MaxSent == 7
\* The most feedback events one behaviour stores.
MaxFeedback == 2

\* ------------------------------------------------------- program constants
\* LIMIT 6 of the local catalog query, limit=6 defaults, [:6] slices.
Limit6 == 6
\* limit=3 of the per-category fan-out.
Limit3 == 3
\* limit=2 of the second catalog inside the context-aware adapter.
Limit2 == 2
\* success_count > 2 gates the reuse of a pattern.
PatternThreshold == 2
\* len(...) >= 3 stops the chain at Semantic AI and at Web Search.
BatchThreshold == 3
\* len(query.strip()) > 3 gates Semantic AI.
SemanticMinLen == 3
\* item['title'][:80]
TitleCap == 80
\* item['description'][:200]
DescriptionCap == 200
\* item.get('snippet', '')[:180]
SnippetCap == 180
\* split()[:3]: the pattern key is the first three words.
PrefixWords == 3

\* ------------------------------------------------------------------- text
Min(a, b) == IF a < b THEN a ELSE b

\* seq[:n]
Take(s, n) == SubSeq(s, 1, Min(Len(s), n))

IsSpace(c) == c = " "

RECURSIVE LStrip(_)
LStrip(s) ==
  IF s = <<>> THEN <<>>
  ELSE IF IsSpace(Head(s)) THEN LStrip(Tail(s)) ELSE s

RECURSIVE RStrip(_)
RStrip(s) ==
  IF s = <<>> THEN <<>>
  ELSE IF IsSpace(s[Len(s)]) THEN RStrip(SubSeq(s, 1, Len(s) - 1)) ELSE s

\* str.strip()
Strip(s) == RStrip(LStrip(s))

LowerChar(c) ==
  CASE c = "A" -> "a"
    [] c = "G" -> "g"
    [] OTHER -> c

\* str.lower()
Lower(s) == [i \in 1..Len(s) |-> LowerChar(s[i])]

\* The first word of a text that starts with a non-space character.
RECURSIVE FirstWord(_)
FirstWord(s) ==
  IF s = <<>> \/ IsSpace(Head(s)) THEN <<>>
  ELSE <<Head(s)>> \o FirstWord(Tail(s))

\* str.split(): the maximal runs of non-space characters, in order.
RECURSIVE Split(_)
Split(s) ==
  LET t == LStrip(s) IN
  IF t = <<>> THEN <<>>
  ELSE LET w == FirstWord(t) IN
       <<w>> \o Split(SubSeq(t, Len(w) + 1, Len(t)))

\* ' '.join(words)
RECURSIVE JoinSpace(_)
JoinSpace(ws) ==
  IF ws = <<>> THEN <<>>
  ELSE IF Len(ws) = 1 THEN ws[1]
  ELSE ws[1] \o <<" ">> \o JoinSpace(Tail(ws))

\* needle occurs in hay as a contiguous run.
Contains(hay, needle) ==
  \E i \in 0..(Len(hay) - Len(needle)) :
    SubSeq(hay, i + 1, i + Len(needle)) = needle

\* SQL: text LIKE pattern, both already in lower case.  In the pattern '%'
\* stands for any run of characters and '_' for any one character.
RECURSIVE LikeMatch(_, _)
LikeMatch(text, pattern) ==
  IF pattern = <<>> THEN text = <<>>
  ELSE IF Head(pattern) = "%"
  THEN \/ LikeMatch(text, Tail(pattern))
       \/ text # <<>> /\ LikeMatch(Tail(text), pattern)
  ELSE /\ text # <<>>
       /\ Head(pattern) = "_" \/ Head(pattern) = Head(text)
       /\ LikeMatch(Tail(text), Tail(pattern))

\* SQL: text LIKE ?  bound to f"%{word}%".  LIKE ignores ASCII case; the word
\* goes into the pattern as the user typed it.
Like(text, word) == LikeMatch(Lower(text), <<"%">> \o Lower(word) \o <<"%">>)

\* ','.join(categories): a category is one token, the separator another.
RECURSIVE JoinComma(_)
JoinComma(cs) ==
  IF cs = <<>> THEN <<>>
  ELSE IF Len(cs) = 1 THEN <<cs[1]>>
  ELSE <<cs[1], ",">> \o JoinComma(Tail(cs))

\* str.split(','): never empty; the empty text splits into one empty label.
RECURSIVE SplitComma(_)
SplitComma(s) ==
  IF s = <<>> THEN <<"">>
  ELSE IF Head(s) = "," THEN <<"">> \o SplitComma(Tail(s))
  ELSE IF Len(s) = 1 THEN <<s[1]>>
  ELSE IF s[2] = "," THEN <<s[1]>> \o SplitComma(SubSeq(s, 3, Len(s)))
  ELSE <<s[1]>> \o SplitComma(Tail(s))

\* ------------------------------------------------------------------- data
\* detect_emotion's labels that the model uses.
Emotions == {"happy", "sad"}

\* User utterances: empty, blank, "xy", " xy ", "Gift", "a b c d".
QEmpty == <<>>
QBlank == <<" ", " ">>
QXy == <<"x", "y">>
QXyPadded == <<" ", "x", "y", " ">>
QGift == <<"G", "i", "f", "t">>
QFour == <<"a", " ", "b", " ", "c", " ", "d">>
Queries == {QEmpty, QBlank, QXy, QXyPadded, QGift, QFour}
\* Those the orchestrator is called with.
SearchQueries == {QEmpty, QBlank, QXy, QXyPadded, QGift}

TagLocal == "Local Business"
TagSemantic == "Semantic AI Match"
TagWeb == "Real Web Search"
TagDummy == "DummyJSON Catalog"
TagFake == "Alternative Catalog"

\* The i-th item of a source's response: how long its title and its
\* description (for the web search: its snippet) are, and where the first
\* '|' or '-' of the title stands (0: there is none).  The first item is
\* short, the second as long as the caps, the others longer.
Item(i) ==
  [title |-> IF i = 1 THEN 12 ELSE IF i = 2 THEN TitleCap ELSE TitleCap + i,
   description |-> IF i = 1 THEN 40 ELSE IF i = 2 THEN DescriptionCap ELSE DescriptionCap + i,
   bar |-> IF i = 1 THEN 6 ELSE 0]

\* len of the 'title' an adapter stores: item['title'][:80] (semantic, second
\* catalog), the same cut at its first '|' or '-' (web search), or the title
\* as it came (first catalog).
Title(tag, item) ==
  CASE tag \in {TagSemantic, TagFake} -> Min(item.title, TitleCap)
    [] tag = TagWeb -> LET t == Min(item.title, TitleCap) IN
                       IF item.bar \in 1..t THEN item.bar - 1 ELSE t
    [] OTHER -> item.title

\* len of the 'description' an adapter stores: item['description'][:200],
\* snippet[:180] + "...", or the description as it came.
Description(tag, item) ==
  CASE tag \in {TagSemantic, TagFake} -> Min(item.description, DescriptionCap)
    [] tag = TagWeb -> Min(item.description, SnippetCap) + Len(<<".", ".", ".">>)
    [] OTHER -> item.description

\* A product as the orchestrator sees it: the tag of the adapter that built
\* it, its place in what the source sent, the lengths of its title and
\* description.
Product(tag, i) ==
  [source |-> tag, id |-> i, title |-> Title(tag, Item(i)),
   description |-> Description(tag, Item(i))]
Products(tag, n) == [i \in 1..n |-> Product(tag, i)]

\* The dict search_business_products builds from a row: 'title': row[0],
\* 'description': row[1].
LocalProduct(row, id) ==
  [source |-> TagLocal, id |-> id, title |-> Len(row.name),
   description |-> Len(row.description)]

\* A row of business_products joined with its business.  Rows are kept in
\* insertion order; created_date grows with it.
CatalogRow(name, emotions, active) ==
  [name |-> name, description |-> <<>>, category |-> <<>>,
   target_emotions |-> emotions, is_active |-> active]

CatalogEmpty == <<>>
CatalogSmall ==
  << CatalogRow(<<"G", "i", "f", "t", " ", "b", "o", "x">>, {"happy"}, TRUE),
     CatalogRow(<<"x", "y">>, {"happy", "sad"}, FALSE) >>
CatalogBig == [i \in 1..(Limit6 + 1) |-> CatalogRow(<<"g", "i", "f", "t">>, {"happy", "sad"}, TRUE)]
Catalogs == {CatalogEmpty, CatalogSmall, CatalogBig}

\* A row of successful_patterns; its id is its place in the table.
PatternRow(pattern, emotion, cats, count, stamp) ==
  [query_pattern |-> pattern, emotion |-> emotion, successful_categories |-> cats,
   success_count |-> count, last_success |-> stamp]

\* What an upstream source answers: a failure (transport, status, parse), or
\* a well-formed response of n items.
Upstream == {[ok |-> FALSE, n |-> 0]} \cup {[ok |-> TRUE, n |-> k] : k \in 0..MaxUp}

\* What the first catalog answers when asked for its unfiltered list with
\* limit=6 (step 7): as above, or more items than the limit asked for.
UpstreamWide == Upstream \cup {[ok |-> TRUE, n |-> Limit6 + 1]}

\* What the completion service answers when asked for categories: a failure,
\* or a comma-separated text, here already split and stripped.
CategoryAnswers ==
  { <<"beauty">>, <<"furniture", "home-decoration">>, <<"beauty", "laptops", "groceries">> }
Completion ==
  {[ok |-> FALSE, cats |-> <<>>]} \cup {[ok |-> TRUE, cats |-> c] : c \in CategoryAnswers}

\* What a Python call gives back: a value, or an exception that leaves it.
Ret(v) == [raised |-> FALSE, val |-> v]
Raise == [raised |-> TRUE, val |-> <<>>]

\* ------------------------------------------------------ emotion classifier
\* The lexicons of detect_emotion.
ExcitedWords ==
  { <<"e", "x", "c", "i", "t", "e", "d">>,
    <<"t", "h", "r", "i", "l", "l", "e", "d">>,
    <<"a", "m", "a", "z", "i", "n", "g">>,
    <<"f", "a", "n", "t", "a", "s", "t", "i", "c">> }
StressWords ==
  { <<"s", "t", "r", "e", "s", "s">>,
    <<"o", "v", "e", "r", "w", "h", "e", "l", "m">>,
    <<"p", "r", "e", "s", "s", "u", "r", "e">>,
    <<"b", "u", "s", "y">> }
FrustratedWords ==
  { <<"f", "r", "u", "s", "t", "r", "a", "t">>,
    <<"a", "n", "n", "o", "y", "e", "d">>,
    <<"i", "r", "r", "i", "t", "a", "t">>,
    <<"u", "p", "s", "e", "t">> }
TiredWords ==
  { <<"t", "i", "r", "e", "d">>,
    <<"e", "x", "h", "a", "u", "s", "t", "e", "d">>,
    <<"w", "o", "r", "n", " ", "o", "u", "t">> }

\* any(word in text_lower for word in words)
AnyWordIn(words, text_lower) == \E w \in words : Contains(text_lower, w)

\* What TextBlob answers: a polarity in tenths (0.3 is 3), or a failure.
Polarities == {-10, -4, -3, -2, -1, 0, 3, 4, 10}
Scores == {[ok |-> FALSE, polarity |-> 0]} \cup {[ok |-> TRUE, polarity |-> x] : x \in Polarities}

Abs(x) == IF x < 0 THEN -x ELSE x

\* The confidence of the neutral label: 0.3.
NeutralConfidence == 3

\* detect_emotion looking at the fatigue lexicon before the other two.
detect_emotion_TiredFirst(text, score) ==
  LET text_lower == Lower(text)
      polarity == score.polarity
  IN IF ~score.ok THEN [label |-> "neutral", confidence |-> NeutralConfidence]
     ELSE IF polarity > 3
     THEN IF AnyWordIn(ExcitedWords, text_lower)
          THEN [label |-> "excited", confidence |-> Abs(polarity)]
          ELSE [label |-> "happy", confidence |-> Abs(polarity)]
     ELSE IF polarity < -3
     THEN IF AnyWordIn(TiredWords, text_lower)
          THEN [label |-> "tired", confidence |-> Abs(polarity)]
          ELSE IF AnyWordIn(StressWords, text_lower)
          THEN [label |-> "stressed", confidence |-> Abs(polarity)]
          ELSE IF AnyWordIn(FrustratedWords, text_lower)
          THEN [label |-> "frustrated", confidence |-> Abs(polarity)]
          ELSE [label |-> "sad", confidence |-> Abs(polarity)]
     ELSE IF polarity < -1
     THEN [label |-> "confused", confidence |-> Abs(polarity)]
     ELSE [label |-> "neutral", confidence |-> NeutralConfidence]

\* detect_emotion with the bounds 0.3, -0.3 and -0.1 taken inclusively.
detect_emotion_Inclusive(text, score) ==
  LET text_lower == Lower(text)
      polarity == score.polarity
  IN IF ~score.ok THEN [label |-> "neutral", confidence |-> NeutralConfidence]
     ELSE IF polarity >= 3
     THEN IF AnyWordIn(ExcitedWords, text_lower)
          THEN [label |-> "excited", confidence |-> Abs(polarity)]
          ELSE [label |-> "happy", confidence |-> Abs(polarity)]
     ELSE IF polarity <= -3
     THEN IF AnyWordIn(StressWords, text_lower)
          THEN [label |-> "stressed", confidence |-> Abs(polarity)]
          ELSE IF AnyWordIn(FrustratedWords, text_lower)
          THEN [label |-> "frustrated", confidence |-> Abs(polarity)]
          ELSE IF AnyWordIn(TiredWords, text_lower)
          THEN [label |-> "tired", confidence |-> Abs(polarity)]
          ELSE [label |-> "sad", confidence |-> Abs(polarity)]
     ELSE IF polarity <= -1
     THEN [label |-> "confused", confidence |-> Abs(polarity)]
     ELSE [label |-> "neutral", confidence |-> NeutralConfidence]

\* detect_emotion(text) given the scorer's answer: label and confidence in tenths.
detect_emotion(text, score) ==
  LET text_lower == Lower(text)
      polarity == score.polarity
  IN IF ~score.ok THEN [label |-> "neutral", confidence |-> NeutralConfidence]
     ELSE IF polarity > 3
     THEN IF AnyWordIn(ExcitedWords, text_lower)
          THEN [label |-> "excited", confidence |-> Abs(polarity)]
          ELSE [label |-> "happy", confidence |-> Abs(polarity)]
     ELSE IF polarity < -3
     THEN IF AnyWordIn(StressWords, text_lower)
          THEN [label |-> "stressed", confidence |-> Abs(polarity)]
          ELSE IF AnyWordIn(FrustratedWords, text_lower)
          THEN [label |-> "frustrated", confidence |-> Abs(polarity)]
          ELSE IF AnyWordIn(TiredWords, text_lower)
          THEN [label |-> "tired", confidence |-> Abs(polarity)]
          ELSE [label |-> "sad", confidence |-> Abs(polarity)]
     ELSE IF polarity < -1
     THEN [label |-> "confused", confidence |-> Abs(polarity)]
     ELSE [label |-> "neutral", confidence |-> NeutralConfidence]

\* ---------------------------------------------------------------- adapters
\* The WHERE clause of search_business_products for one row.
BusinessMatch(row, emotion, query) ==
  LET query_words == Split(Lower(query)) IN
  /\ row.is_active
  /\ emotion # "" => emotion \in row.target_emotions
  /\ (query # <<>> /\ query_words # <<>>) =>
       \E k \in 1..Len(query_words) :
         \/ Like(row.name, query_words[k])
         \/ Like(row.description, query_words[k])
         \/ Like(row.category, query_words[k])

\* ORDER BY created_date DESC: the ids of a table of n rows, newest first.
NewestFirst(n) == [i \in 1..n |-> n + 1 - i]

search_business_products(emotion, query, catalog, dbOk) ==
  IF ~dbOk THEN Ret(<<>>)
  ELSE LET hits == SelectSeq(NewestFirst(Len(catalog)),
                             LAMBDA id : BusinessMatch(catalog[id], emotion, query))
           rows == Take(hits, Limit6)
       IN Ret([i \in 1..Len(rows) |-> LocalProduct(catalog[rows[i]], rows[i])])

semantic_product_search(query, limit, up) ==
  IF ~up.ok THEN Ret(<<>>)
  ELSE Ret(Products(TagSemantic, Min(up.n, limit)))

\* search_web_products without its try/except.
search_web_products_Unguarded(query, limit, up) ==
  IF ~up.ok THEN Raise
  ELSE Ret(Take(Products(TagWeb, up.n), limit))

search_web_products(query, limit, up) ==
  IF ~up.ok THEN Ret(<<>>)
  ELSE Ret(Take(Products(TagWeb, up.n), limit))

\* fetch_products_dummyjson without its try/except.
fetch_products_dummyjson_Unguarded(query, category, limit, up) ==
  IF ~up.ok THEN Raise
  ELSE Ret(Products(TagDummy, up.n))

\* The limit travels in the request; the response is returned as it came.
fetch_products_dummyjson(query, category, limit, up) ==
  IF ~up.ok THEN Ret(<<>>)
  ELSE Ret(Products(TagDummy, up.n))

fetch_products_fakestore(query, category, limit, up) ==
  IF ~up.ok THEN Ret(<<>>)
  ELSE Ret(Products(TagFake, Min(up.n, limit)))

\* The loop of context_aware_ai_search over categories[:2]; upA[k], upB[k]
\* are what the two catalogs answer for the k-th category.
RECURSIVE ContextFanOut(_, _, _, _, _)
ContextFanOut(cats, k, upA, upB, all_products) ==
  IF k > Len(cats) THEN all_products
  ELSE LET a == all_products \o fetch_products_dummyjson(<<>>, cats[k], Limit3, upA[k]).val
           b == IF Len(a) < Limit6
                THEN a \o fetch_products_fakestore(<<>>, cats[k], Limit2, upB[k]).val
                ELSE a
       IN ContextFanOut(cats, k + 1, upA, upB, b)

\* Returns the pair (products, message); the message is empty with no products.
context_aware_ai_search(emotion, query, comp, upA, upB) ==
  IF ~comp.ok THEN Ret([products |-> <<>>, msg |-> ""])
  ELSE LET all_products == ContextFanOut(Take(comp.cats, 2), 1, upA, upB, <<>>) IN
       IF all_products # <<>>
       THEN Ret([products |-> Take(all_products, Limit6), msg |-> "Context-aware AI chose"])
       ELSE Ret([products |-> <<>>, msg |-> ""])

\* ----------------------------------------------------------- pattern store
\* PatternMatches comparing the whole query, not its words, with the pattern.
PatternMatches_WholeQuery(rows, query, emotion) ==
  { id \in 1..Len(rows) :
      /\ rows[id].emotion = emotion
      /\ Like(rows[id].query_pattern, query) }

\* The rows get_successful_recommendations' WHERE clause keeps.
PatternMatches(rows, query, emotion) ==
  LET query_words == Split(Lower(query)) IN
  { id \in 1..Len(rows) :
      /\ rows[id].emotion = emotion
      /\ \E k \in 1..Len(query_words) : Like(rows[id].query_pattern, query_words[k]) }

\* ORDER BY success_count DESC, last_success DESC LIMIT 1: the rows no other
\* matching row precedes.  Rows equal in both columns come in either order.
PatternBest(rows, query, emotion) ==
  LET m == PatternMatches(rows, query, emotion) IN
  { id \in m :
      \A other \in m :
        \/ rows[other].success_count < rows[id].success_count
        \/ /\ rows[other].success_count = rows[id].success_count
           /\ rows[other].last_success <= rows[id].last_success }

NotFound == [found |-> FALSE, categories |-> <<>>, success_count |-> 0]

\* The dict of get_successful_recommendations when the SELECT gave row id.
Found(rows, id) ==
  [found |-> TRUE, categories |-> SplitComma(rows[id].successful_categories),
   success_count |-> rows[id].success_count]

\* get_successful_recommendations leaving the word test out of its WHERE
\* clause when the query has no word.
get_successful_recommendations_AnyWord(rows, query, emotion, dbOk) ==
  IF ~dbOk THEN {NotFound}
  ELSE IF Split(Lower(query)) = <<>>
  THEN LET m == { id \in 1..Len(rows) : rows[id].emotion = emotion } IN
       IF m = {} THEN {NotFound} ELSE { Found(rows, id) : id \in m }
  ELSE IF PatternBest(rows, query, emotion) = {} THEN {NotFound}
  ELSE { Found(rows, id) : id \in PatternBest(rows, query, emotion) }

\* The values get_successful_recommendations may return.  With no word in the
\* query the WHERE clause ends in "( )": the statement fails, and {} comes back.
get_successful_recommendations(rows, query, emotion, dbOk) ==
  IF ~dbOk \/ Split(Lower(query)) = <<>> THEN {NotFound}
  ELSE IF PatternBest(rows, query, emotion) = {} THEN {NotFound}
  ELSE { Found(rows, id) : id \in PatternBest(rows, query, emotion) }

\* query_pattern of save_successful_pattern: ' '.join(query.lower().split()[:3])
QueryPattern(query) == JoinSpace(Take(Split(Lower(query)), PrefixWords))

\* ------------------------------------------------------------------ state
VARIABLES
  business_products,  \* table business_products (joined with businesses)
  patterns,           \* table successful_patterns
  analytics,          \* table recommendation_analytics
  dropped,            \* analytics writes the database refused so far
  pc,                 \* where the orchestrator call stands
  query, emotion,     \* its arguments
  calls,              \* the calls it has made so far, in order
  result,             \* what it returned
  spc,                \* per session: where its save_successful_pattern call stands
  sarg,               \* per session: query_pattern, emotion, categories_str of the call
  existing,           \* per session: the id its SELECT fetched, 0 for None
  clock,              \* datetime.now(), in writes so far
  nsaves,             \* save_successful_pattern calls begun so far
  completed,          \* per key: the calls whose write was committed, and the last one's time
  product_feedback,   \* table product_feedback
  fb,                 \* the last save_product_feedback call: arguments, what it did, its return
  emotion_call,       \* the last direct call of detect_emotion: text, scorer answer, result
  adapter_call        \* the last direct call of an adapter: function, arguments, upstream, result

vars == <<business_products, patterns, analytics, dropped, pc, query, emotion,
          calls, result, spc, sarg, existing, clock, nsaves, completed,
          product_feedback, fb, emotion_call, adapter_call>>

searchVars == <<pc, query, emotion, calls, result, analytics, dropped>>
saveVars == <<spc, sarg, existing, clock, nsaves, completed>>
feedbackVars == <<product_feedback, fb>>
directVars == <<emotion_call, adapter_call>>

\* One call made by the orchestrator: the step that made it, the function,
\* how many products (for the lookup: the success_count) came back and which, and for a
\* catalog call the category= and limit= it was given (for the completion
\* service in step 6: the category it chose).
CallWith(step, fn, n, category, limit) ==
  [step |-> step, fn |-> fn, n |-> n, category |-> category, limit |-> limit, out |-> <<>>]
Call(step, fn, n) == CallWith(step, fn, n, "", 0)
\* A call that returned the list of products out.
CallOut(step, fn, out, category, limit) ==
  [CallWith(step, fn, Len(out), category, limit) EXCEPT !.out = out]

NoResult == [products |-> <<>>, rationale |-> ""]

\* The seven return statements' rationales and the method names they log.
RationaleLocal == "Found products from caring local businesses"
RationalePattern == "Using proven successful pattern"
RationaleSemantic == "AI generated perfect matches for your needs"
RationaleWeb == "Found real products from across the web"
RationaleContext == "Context-aware AI chose"
RationaleFallback == "AI chose products for your mood"
RationaleSafety == "Here are some general products while I learn your preferences"
RationaleLearning == "I'm still learning! Try describing what you need differently."

\* The stores an orchestrator call may find: empty, one row written by accept
\* feedback (categories "general") on the query "Gift", or a row that
\* save_successful_pattern wrote for a caller's list of three categories.
ThreeCategories == <<"beauty", "laptops", "groceries">>
InitStores ==
  {<<>>} \cup
  { <<PatternRow(QueryPattern(QGift), e, JoinComma(<<"general">>), c, 1)>> :
      e \in Emotions, c \in 1..MaxCount } \cup
  { <<PatternRow(QueryPattern(QGift), "happy", JoinComma(ThreeCategories), MaxCount, 1)>> }

\* One behaviour is one call of neurochat_product_search: a call reads the two
\* tables above and appends to analytics, which it never reads; analytics
\* holds the rows written since the call began.

\* The sessions that give feedback.
Procs == 1..NumProcs

\* The arguments save_successful_pattern is called with: "a b c d" and
\* "A b c" share the pattern "a b c"; "Gift" and the emotion sad give other keys.
QUpper == <<"A", " ", "b", " ", "c">>
SaveArgs ==
  { <<QFour, "happy", <<"general">> >>, <<QUpper, "happy", <<"general">> >>,
    <<QGift, "happy", <<"general">> >>, <<QFour, "sad", <<"general">> >> }

\* The key a call reads and writes: query_pattern, emotion, categories_str.
KeyOf(q, e, categories) ==
  [query_pattern |-> QueryPattern(q), emotion |-> e,
   successful_categories |-> JoinComma(categories)]
Keys == { KeyOf(a[1], a[2], a[3]) : a \in SaveArgs }
NoKey == [query_pattern |-> <<>>, emotion |-> "", successful_categories |-> <<>>]

\* No feedback given and no adapter called yet.
NoScore == [ok |-> FALSE, polarity |-> 0]
NoFeedback ==
  [product_name |-> "", user_query |-> <<>>, feedback_type |-> "", source |-> "",
   polarity |-> NoScore, wrote |-> FALSE, emotion |-> "", saves |-> 0, saved |-> FALSE,
   ret |-> FALSE, raised |-> FALSE]
NoAdapterCall ==
  [fn |-> "", query |-> <<>>, emotion |-> "", limit |-> 0, failed |-> FALSE, out |-> <<>>,
   count |-> 0, raised |-> FALSE]
NoEmotionCall ==
  [text |-> <<>>, score |-> NoScore, label |-> "", confidence |-> 0, raised |-> FALSE]
IdleOthers ==
  /\ product_feedback = <<>>
  /\ fb = NoFeedback
  /\ emotion_call = NoEmotionCall
  /\ adapter_call = NoAdapterCall

IdleSaves ==
  /\ spc = [p \in Procs |-> "idle"]
  /\ sarg = [p \in Procs |-> NoKey]
  /\ existing = [p \in Procs |-> 0]
  /\ clock = 1
  /\ nsaves = 0
  /\ completed = [k \in Keys |-> [n |-> 0, stamp |-> 0]]

Init ==
  /\ IdleSaves
  /\ IdleOthers
  /\ business_products \in Catalogs
  /\ patterns \in InitStores
  /\ analytics = <<>>
  /\ dropped = 0
  /\ pc = "idle"
  /\ query = <<>>
  /\ emotion = "happy"
  /\ calls = <<>>
  /\ result = NoResult

\* ----------------------------------------------------------- analytics sink
\* log_recommendation_analytics executing its INSERT twice.
log_recommendation_analytics_Twice(table, q, e, method, products_found, sinkOk) ==
  LET row == [user_query |-> q, user_emotion |-> e,
              recommendation_method |-> method, products_found |-> products_found]
  IN IF sinkOk THEN table \o <<row, row>> ELSE table

\* The table after log_recommendation_analytics; a failed INSERT is swallowed.
log_recommendation_analytics(table, q, e, method, products_found, sinkOk) ==
  IF sinkOk
  THEN Append(table, [user_query |-> q, user_emotion |-> e,
                      recommendation_method |-> method, products_found |-> products_found])
  ELSE table

\* ------------------------------------------------------------ orchestrator
\* Frame of an orchestrator that files the query it served as a pattern.
Frame_Learning ==
  /\ patterns' = Append(patterns, PatternRow(QueryPattern(query), emotion,
                                              JoinComma(<<"general">>), 1, clock))
  /\ UNCHANGED <<business_products, query, emotion, saveVars, feedbackVars, directVars>>

\* What no step of neurochat_product_search writes.
Frame ==
  UNCHANGED <<business_products, patterns, query, emotion, saveVars, feedbackVars, directVars>>

\* The products the calls of other steps than step returned, in order.
RECURSIVE OutsOfOthers(_, _, _)
OutsOfOthers(trace, step, i) ==
  IF i > Len(trace) THEN <<>>
  ELSE IF trace[i].step # step THEN trace[i].out \o OutsOfOthers(trace, step, i + 1)
  ELSE OutsOfOthers(trace, step, i + 1)

\* Finish handing back what earlier steps had found together with its own.
Finish_Merging(trace, step, method, products_found, products, rationale) ==
  \E sinkOk \in BOOLEAN :
    /\ analytics' = log_recommendation_analytics(analytics, query, emotion, method,
                                                  products_found, sinkOk)
    /\ dropped' = IF sinkOk THEN dropped ELSE dropped + 1
    /\ calls' = Append(trace, Call(step, "log_recommendation_analytics", products_found))
    /\ result' = [products |-> OutsOfOthers(trace, step, 1) \o products,
                  rationale |-> rationale]
    /\ pc' = "returned"
    /\ Frame

\* Finish handing back nothing when the analytics write failed.
Finish_NeedsSink(trace, step, method, products_found, products, rationale) ==
  \E sinkOk \in BOOLEAN :
    /\ analytics' = log_recommendation_analytics(analytics, query, emotion, method,
                                                  products_found, sinkOk)
    /\ dropped' = IF sinkOk THEN dropped ELSE dropped + 1
    /\ calls' = Append(trace, Call(step, "log_recommendation_analytics", products_found))
    /\ result' = IF sinkOk THEN [products |-> products, rationale |-> rationale]
                 ELSE [products |-> <<>>, rationale |-> RationaleLearning]
    /\ pc' = "returned"
    /\ Frame

\* log_recommendation_analytics(...) ; return products, rationale
Finish(trace, step, method, products_found, products, rationale) ==
  \E sinkOk \in BOOLEAN :
    /\ analytics' = log_recommendation_analytics(analytics, query, emotion, method,
                                                  products_found, sinkOk)
    /\ dropped' = IF sinkOk THEN dropped ELSE dropped + 1
    /\ calls' = Append(trace, Call(step, "log_recommendation_analytics", products_found))
    /\ result' = [products |-> products, rationale |-> rationale]
    /\ pc' = "returned"
    /\ Frame

\* NextStep with steps 3 and 4 written in the other order.
NextStep_WebBeforeSemantic(step) ==
  CASE step = "step1" -> "step2"
    [] step = "step2" -> "step4"
    [] step = "step4" -> "step3"
    [] step = "step3" -> "step5"
    [] step = "step5" -> "step6"
    [] step = "step6" -> "step7"

\* NextStep going back to Semantic AI when Context AI found nothing.
NextStep_Retry(step) ==
  CASE step = "step1" -> "step2"
    [] step = "step2" -> "step3"
    [] step = "step3" -> "step4"
    [] step = "step4" -> "step5"
    [] step = "step5" -> "step3"
    [] step = "step6" -> "step7"

\* The order of the seven steps in the body of neurochat_product_search.
NextStep(step) ==
  CASE step = "step1" -> "step2"
    [] step = "step2" -> "step3"
    [] step = "step3" -> "step4"
    [] step = "step4" -> "step5"
    [] step = "step5" -> "step6"
    [] step = "step6" -> "step7"

\* Fall through to the next step.
Continue(trace) ==
  /\ calls' = trace
  /\ pc' = NextStep(pc)
  /\ UNCHANGED <<analytics, dropped, result>>
  /\ Frame

\* An exception leaves neurochat_product_search.
Propagate(trace) ==
  /\ calls' = trace
  /\ pc' = "raised"
  /\ UNCHANGED <<analytics, dropped, result>>
  /\ Frame

Start(q, e) ==
  /\ pc = "idle"
  /\ pc' = "step1"
  /\ query' = q
  /\ emotion' = e
  /\ calls' = <<>>
  /\ result' = NoResult
  /\ UNCHANGED <<business_products, patterns, analytics, dropped, saveVars, feedbackVars,
                 directVars>>

\* LocalSufficient asking for a batch, as steps 3 and 4 do.
LocalSufficient_Batch(products) == products # <<>> /\ Len(products) >= BatchThreshold

\* if business_products:
LocalSufficient(products) == products # <<>>

\* PatternTrusted with >= in place of >.
PatternTrusted_AtLeast(historical_success) ==
  historical_success.found /\ historical_success.success_count >= PatternThreshold

\* if historical_success and historical_success.get('success_count', 0) > 2:
PatternTrusted(historical_success) ==
  historical_success.found /\ historical_success.success_count > PatternThreshold

\* SemanticGate measuring the query as typed.
SemanticGate_NoStrip(q) == q # <<>> /\ Len(q) > SemanticMinLen

\* if query.strip() and len(query.strip()) > 3:
SemanticGate(q) == Strip(q) # <<>> /\ Len(Strip(q)) > SemanticMinLen

\* if semantic_products and len(semantic_products) >= 3:
\* SemanticSufficient content with a single product.
SemanticSufficient_Any(products) == products # <<>>

SemanticSufficient(products) == products # <<>> /\ Len(products) >= BatchThreshold

\* if query.strip():
\* WebGate testing the query as typed.
WebGate_NoStrip(q) == q # <<>>

WebGate(q) == Strip(q) # <<>>

\* if web_products and len(web_products) >= 3:
WebSufficient(products) == products # <<>> /\ Len(products) >= BatchThreshold

\* Step 1: local business products.
Step1 ==
  /\ pc = "step1"
  /\ \E dbOk \in BOOLEAN :
       LET r == search_business_products(emotion, query, business_products, dbOk)
           trace == Append(calls, CallOut(1, "search_business_products", r.val, "", 0))
       IN IF r.raised THEN Propagate(trace)
          ELSE IF LocalSufficient(r.val)
          THEN Finish(trace, 1, "Local Business", Len(r.val), r.val, RationaleLocal)
          ELSE Continue(trace)

\* PatternCategories fanning out over every stored category.
PatternCategories_All(historical_success) == historical_success.categories

\* historical_success['categories'][:2]
PatternCategories(historical_success) == Take(historical_success.categories, 2)

\* The fan-out of step 2 over categories[:2], limit 3 each.
RECURSIVE PatternFanOut(_, _, _)
PatternFanOut(cats, k, upA) ==
  IF k > Len(cats) THEN <<>>
  ELSE <<fetch_products_dummyjson(<<>>, cats[k], Limit3, upA[k])>>
       \o PatternFanOut(cats, k + 1, upA)

RECURSIVE Concat(_)
Concat(rs) == IF rs = <<>> THEN <<>> ELSE Head(rs).val \o Concat(Tail(rs))

AnyRaised(rs) == \E k \in 1..Len(rs) : rs[k].raised

\* PatternSufficient trusting the pattern whatever the catalog returned.
PatternSufficient_Always(pattern_products) == TRUE

\* if pattern_products:
PatternSufficient(pattern_products) == pattern_products # <<>>

\* Step 2: a pattern that succeeded more than twice.
Step2 ==
  /\ pc = "step2"
  /\ \E dbOk \in BOOLEAN, upA \in [1..Len(ThreeCategories) -> Upstream] :
     \E historical_success \in get_successful_recommendations(patterns, query, emotion, dbOk) :
       LET trace == Append(calls, Call(2, "get_successful_recommendations",
                                       historical_success.success_count))
       IN IF PatternTrusted(historical_success)
          THEN LET rs == PatternFanOut(PatternCategories(historical_success), 1, upA)
                   pattern_products == Concat(rs)
                   trace2 == trace \o [k \in 1..Len(rs) |->
                                         CallOut(2, "fetch_products_dummyjson", rs[k].val,
                                                 historical_success.categories[k], Limit3)]
               IN IF AnyRaised(rs) THEN Propagate(trace2)
                  ELSE IF PatternSufficient(pattern_products)
                  THEN Finish(trace2, 2, "Historical Pattern", Len(pattern_products),
                              Take(pattern_products, Limit6), RationalePattern)
                  ELSE Continue(trace2)
          ELSE Continue(trace)

\* Step 3: semantic generation, for a query longer than 3 once stripped.
Step3 ==
  /\ pc = "step3"
  /\ IF SemanticGate(query)
     THEN \E up \in Upstream :
            LET r == semantic_product_search(query, Limit6, up)
                trace == Append(calls, CallOut(3, "semantic_product_search", r.val, "", 0))
            IN IF r.raised THEN Propagate(trace)
               ELSE IF SemanticSufficient(r.val)
               THEN Finish(trace, 3, "Semantic AI", Len(r.val), r.val, RationaleSemantic)
               ELSE Continue(trace)
     ELSE Continue(calls)

\* Step 4: web search, for a query that is not blank.
Step4 ==
  /\ pc = "step4"
  /\ IF WebGate(query)
     THEN \E up \in Upstream :
            LET r == search_web_products(query, Limit6, up)
                trace == Append(calls, CallOut(4, "search_web_products", r.val, "", 0))
            IN IF r.raised THEN Propagate(trace)
               ELSE IF WebSufficient(r.val)
               THEN Finish(trace, 4, "Web Search", Len(r.val), r.val, RationaleWeb)
               ELSE Continue(trace)
     ELSE Continue(calls)

\* ContextSufficient taking whatever came back, an empty list too.
ContextSufficient_Always(products) == TRUE

\* ContextSufficient asking for a batch, as steps 3 and 4 do.
ContextSufficient_Batch(products) == Len(products) >= BatchThreshold

\* if context_products:
ContextSufficient(products) == products # <<>>

\* Step 5: context-aware categories.  Each catalog answers the two categories
\* of one call alike.
Step5 ==
  /\ pc = "step5"
  /\ \E comp \in Completion, a \in Upstream, b \in Upstream :
       LET upA == <<a, a>>
           upB == <<b, b>>
           r == context_aware_ai_search(emotion, query, comp, upA, upB)
           trace == Append(calls, CallOut(5, "context_aware_ai_search", r.val.products, "", 0))
       IN IF r.raised THEN Propagate(trace)
          ELSE IF ContextSufficient(r.val.products)
          THEN Finish(trace, 5, "Context AI", Len(r.val.products), r.val.products, r.val.msg)
          ELSE Continue(trace)

\* The single category the completion service is asked for in step 6.
FallbackAnswers == {"beauty", "groceries"}

\* Step 6 asking the second catalog first.
Step6_CatalogBFirst ==
  /\ pc = "step6"
  /\ \E compOk \in BOOLEAN, fallback_category \in FallbackAnswers,
        upA \in Upstream, upB \in Upstream :
       LET trace0 == Append(calls, CallWith(6, "generate_content", 0,
                                            IF compOk THEN fallback_category ELSE "", 0)) IN
       IF ~compOk THEN Continue(trace0)
       ELSE LET a == fetch_products_dummyjson(<<>>, fallback_category, Limit6, upA)
                b == fetch_products_fakestore(<<>>, fallback_category, Limit6, upB)
                trace1 == Append(trace0, CallOut(6, "fetch_products_fakestore", b.val,
                                                 fallback_category, Limit6))
                trace2 == Append(trace1, CallOut(6, "fetch_products_dummyjson", a.val,
                                                 fallback_category, Limit6))
            IN IF b.val # <<>>
               THEN Finish(trace1, 6, "AI Fallback", Len(b.val), b.val, RationaleFallback)
               ELSE IF a.val # <<>>
               THEN Finish(trace2, 6, "AI Fallback", Len(a.val), a.val, RationaleFallback)
               ELSE Continue(trace2)

\* Step 6: one category chosen by the completion service; the whole step sits
\* in a try whose except clause falls through to step 7.
Step6 ==
  /\ pc = "step6"
  /\ \E compOk \in BOOLEAN, fallback_category \in FallbackAnswers,
        upA \in Upstream, upB \in Upstream :
       LET trace0 == Append(calls, CallWith(6, "generate_content", 0,
                                            IF compOk THEN fallback_category ELSE "", 0)) IN
       IF ~compOk THEN Continue(trace0)
       ELSE LET a == fetch_products_dummyjson(<<>>, fallback_category, Limit6, upA)
                b == fetch_products_fakestore(<<>>, fallback_category, Limit6, upB)
                trace1 == Append(trace0, CallOut(6, "fetch_products_dummyjson", a.val,
                                                 fallback_category, Limit6))
                trace2 == Append(trace1, CallOut(6, "fetch_products_fakestore", b.val,
                                                 fallback_category, Limit6))
            IN IF a.raised THEN Continue(trace1)
               ELSE IF a.val # <<>>
               THEN Finish(trace1, 6, "AI Fallback", Len(a.val), a.val, RationaleFallback)
               ELSE IF b.raised THEN Continue(trace2)
               ELSE IF b.val # <<>>
               THEN Finish(trace2, 6, "AI Fallback", Len(b.val), b.val, RationaleFallback)
               ELSE Continue(trace2)

\* Step 7 logging its empty result under the name of the non-empty one.
Step7_OneName ==
  /\ pc = "step7"
  /\ \E up \in UpstreamWide :
       LET r == fetch_products_dummyjson(<<>>, "", Limit6, up)
           trace == Append(calls, CallOut(7, "fetch_products_dummyjson", r.val, "", Limit6))
       IN IF r.raised THEN Propagate(trace)
          ELSE IF r.val # <<>>
          THEN Finish(trace, 7, "Safety Fallback", Len(r.val), r.val, RationaleSafety)
          ELSE Finish(trace, 7, "Safety Fallback", 0, <<>>, RationaleLearning)

\* Step 7: the unfiltered catalog, then the empty result.
Step7 ==
  /\ pc = "step7"
  /\ \E up \in UpstreamWide :
       LET r == fetch_products_dummyjson(<<>>, "", Limit6, up)
           trace == Append(calls, CallOut(7, "fetch_products_dummyjson", r.val, "", Limit6))
       IN IF r.raised THEN Propagate(trace)
          ELSE IF r.val # <<>>
          THEN Finish(trace, 7, "Safety Fallback", Len(r.val), r.val, RationaleSafety)
          ELSE Finish(trace, 7, "No Results", 0, <<>>, RationaleLearning)

Next ==
  \/ \E q \in SearchQueries, e \in Emotions : Start(q, e)
  \/ Step1
  \/ Step2
  \/ Step3
  \/ Step4
  \/ Step5
  \/ Step6
  \/ Step7

Spec == Init /\ [][Next]_vars

\* A call that has begun keeps running: the body is straight-line code and
\* every call it makes returns or fails (timeout=10 on the requests).
Steps == Step1 \/ Step2 \/ Step3 \/ Step4 \/ Step5 \/ Step6 \/ Step7

SpecLive == Spec /\ WF_vars(Steps)

\* ------------------------------------------- pattern store: recordSuccess
\* The ids of the rows a key's SELECT matches.
RowsOf(rows, key) ==
  { id \in 1..Len(rows) :
      /\ rows[id].query_pattern = key.query_pattern
      /\ rows[id].emotion = key.emotion
      /\ rows[id].successful_categories = key.successful_categories }

\* cursor.fetchone() of the SELECT in save_successful_pattern: a matching
\* row's id, or 0 for None.  The statement has no ORDER BY.
SelectExisting(rows, key) ==
  IF RowsOf(rows, key) = {} THEN {0} ELSE RowsOf(rows, key)

\* UpdatePattern counting down: SET success_count = success_count - 1.
UpdatePattern_CountDown(rows, id, now) ==
  [rows EXCEPT ![id] = [@ EXCEPT !.success_count = @ - 1, !.last_success = now]]

\* UPDATE ... SET success_count = success_count + 1, last_success = ? WHERE id = ?
UpdatePattern(rows, id, now) ==
  [rows EXCEPT ![id] = [@ EXCEPT !.success_count = @ + 1, !.last_success = now]]

\* INSERT INTO successful_patterns (...) VALUES (?, ?, ?, 1, ?)
InsertPattern(rows, key, now) ==
  Append(rows, PatternRow(key.query_pattern, key.emotion, key.successful_categories, 1, now))

\* WritePattern that inserts whatever the SELECT fetched.
WritePattern_AlwaysInsert(rows, key, fetched, now) == InsertPattern(rows, key, now)

\* The table after the write the call chose from what it had fetched.
WritePattern(rows, key, fetched, now) ==
  IF fetched # 0 THEN UpdatePattern(rows, fetched, now)
  ELSE InsertPattern(rows, key, now)

SaveFrame == UNCHANGED <<business_products, searchVars, feedbackVars, directVars>>

\* save_successful_pattern is entered: connect, derive the key.
SaveBegin(p, q, e, categories) ==
  /\ spc[p] = "idle"
  /\ nsaves < MaxSaves
  /\ spc' = [spc EXCEPT ![p] = "select"]
  /\ sarg' = [sarg EXCEPT ![p] = KeyOf(q, e, categories)]
  /\ existing' = [existing EXCEPT ![p] = 0]
  /\ nsaves' = nsaves + 1
  /\ UNCHANGED <<patterns, clock, completed>>
  /\ SaveFrame

\* The SELECT and fetchone(); a database error ends the call in the except clause.
SaveSelect(p) ==
  /\ spc[p] = "select"
  /\ \E dbOk \in BOOLEAN :
       IF dbOk
       THEN \E id \in SelectExisting(patterns, sarg[p]) :
              /\ existing' = [existing EXCEPT ![p] = id]
              /\ spc' = [spc EXCEPT ![p] = "write"]
       ELSE /\ existing' = existing
            /\ spc' = [spc EXCEPT ![p] = "idle"]
  /\ UNCHANGED <<patterns, sarg, clock, nsaves, completed>>
  /\ SaveFrame

\* The UPDATE or INSERT and the commit; a database error ends the call in the
\* except clause with nothing written.
SaveWrite(p) ==
  /\ spc[p] = "write"
  /\ \E dbOk \in BOOLEAN :
       IF dbOk
       THEN /\ patterns' = WritePattern(patterns, sarg[p], existing[p], clock + 1)
            /\ clock' = clock + 1
            /\ completed' = [completed EXCEPT ![sarg[p]] =
                               [n |-> @.n + 1, stamp |-> clock + 1]]
       ELSE UNCHANGED <<patterns, clock, completed>>
  /\ spc' = [spc EXCEPT ![p] = "idle"]
  /\ UNCHANGED <<sarg, existing, nsaves>>
  /\ SaveFrame

\* A fresh database, nobody searching.
InitStore ==
  /\ IdleSaves
  /\ IdleOthers
  /\ business_products = CatalogEmpty
  /\ patterns = <<>>
  /\ analytics = <<>>
  /\ dropped = 0
  /\ pc = "idle"
  /\ query = <<>>
  /\ emotion = "happy"
  /\ calls = <<>>
  /\ result = NoResult

\* Sessions save concurrently: their statements interleave.
NextStore ==
  \/ \E p \in Procs, a \in SaveArgs : SaveBegin(p, a[1], a[2], a[3])
  \/ \E p \in Procs : SaveSelect(p)
  \/ \E p \in Procs : SaveWrite(p)

SpecStore == InitStore /\ [][NextStore]_vars

\* One call at a time: a call begins only when no other is under way.
NoSaveUnderWay == \A p \in Procs : spc[p] = "idle"

SaveBeginAlone(p, q, e, categories) == NoSaveUnderWay /\ SaveBegin(p, q, e, categories)

NextSeq ==
  \/ \E p \in Procs, a \in SaveArgs : SaveBeginAlone(p, a[1], a[2], a[3])
  \/ \E p \in Procs : SaveSelect(p)
  \/ \E p \in Procs : SaveWrite(p)

SpecSeq == InitStore /\ [][NextSeq]_vars

\* ------------------------------------------------------ feedback recorder
\* The buttons of display_product_cards send these two verdicts.
Verdicts == {"perfect_match", "not_relevant"}

\* The queries feedback is given on: "Gift", "so tired".
QTired == <<"s", "o", " ", "t", "i", "r", "e", "d">>
FeedbackQueries == {QGift, QTired}

\* The source tags of the products feedback is given on.
FeedbackSources == {TagLocal, TagDummy}

\* A row of product_feedback.
FeedbackRow(product_name, user_query, feedback_type, source) ==
  [product_name |-> product_name, user_query |-> user_query,
   feedback_type |-> feedback_type, recommendation_source |-> source]

\* The tables after save_successful_pattern has run from entry to return with
\* no other session writing: a database error at the SELECT or at the write
\* leaves the table as it was.
SavePatternAlone(q, e, categories, dbOk) ==
  IF dbOk
  THEN /\ \E id \in SelectExisting(patterns, KeyOf(q, e, categories)) :
            patterns' = WritePattern(patterns, KeyOf(q, e, categories), id, clock + 1)
       /\ clock' = clock + 1
  ELSE UNCHANGED <<patterns, clock>>

\* What a call that returned True did: the row is stored; saves counts its
\* save_successful_pattern calls and saved tells whether that call's write was committed.
FeedbackDone(product_name, user_query, feedback_type, source, score, e, saves, saved) ==
  [product_name |-> product_name, user_query |-> user_query,
   feedback_type |-> feedback_type, source |-> source,
   polarity |-> score, wrote |-> TRUE, emotion |-> e, saves |-> saves, saved |-> saved,
   ret |-> TRUE, raised |-> FALSE]

\* What a call that ended in the except clause did: nothing; it returned False.
FeedbackFailed(product_name, user_query, feedback_type, source) ==
  [product_name |-> product_name, user_query |-> user_query,
   feedback_type |-> feedback_type, source |-> source,
   polarity |-> NoScore, wrote |-> FALSE, emotion |-> "", saves |-> 0, saved |-> FALSE,
   ret |-> FALSE, raised |-> FALSE]

FeedbackFrame ==
  UNCHANGED <<business_products, searchVars, spc, sarg, existing, nsaves, completed,
              directVars>>

\* save_product_feedback with save_successful_pattern called for every verdict.
save_product_feedback_AnyVerdict(product_name, user_query, feedback_type, source) ==
  /\ Len(product_feedback) < MaxFeedback
  /\ \E fbOk \in BOOLEAN, score \in Scores :
       IF fbOk
       THEN LET e == detect_emotion(user_query, score).label IN
            /\ product_feedback' = Append(product_feedback,
                   FeedbackRow(product_name, user_query, feedback_type, source))
            /\ \E dbOk \in BOOLEAN :
                 /\ SavePatternAlone(user_query, e, <<"general">>, dbOk)
                 /\ fb' = FeedbackDone(product_name, user_query, feedback_type, source,
                                       score, e, 1, dbOk)
       ELSE /\ fb' = FeedbackFailed(product_name, user_query, feedback_type, source)
            /\ UNCHANGED <<product_feedback, patterns, clock>>
  /\ FeedbackFrame

\* save_product_feedback saving the pattern before it stores the feedback.
save_product_feedback_PatternFirst(product_name, user_query, feedback_type, source) ==
  /\ Len(product_feedback) < MaxFeedback
  /\ \E fbOk \in BOOLEAN :
       IF feedback_type = "perfect_match"
       THEN \E score \in Scores :
              LET e == detect_emotion(user_query, score).label IN
              \E dbOk \in BOOLEAN :
                /\ SavePatternAlone(user_query, e, <<"general">>, dbOk)
                /\ IF fbOk
                   THEN /\ product_feedback' = Append(product_feedback,
                               FeedbackRow(product_name, user_query, feedback_type, source))
                        /\ fb' = FeedbackDone(product_name, user_query, feedback_type, source,
                                              score, e, 1, dbOk)
                   ELSE /\ fb' = FeedbackFailed(product_name, user_query, feedback_type, source)
                        /\ UNCHANGED product_feedback
       ELSE IF fbOk
       THEN /\ product_feedback' = Append(product_feedback,
                   FeedbackRow(product_name, user_query, feedback_type, source))
            /\ fb' = FeedbackDone(product_name, user_query, feedback_type, source,
                                  NoScore, "", 0, FALSE)
            /\ UNCHANGED <<patterns, clock>>
       ELSE /\ fb' = FeedbackFailed(product_name, user_query, feedback_type, source)
            /\ UNCHANGED <<product_feedback, patterns, clock>>
  /\ FeedbackFrame

\* save_product_feedback filing the pattern under the accepted product's source.
save_product_feedback_SourceCategory(product_name, user_query, feedback_type, source) ==
  /\ Len(product_feedback) < MaxFeedback
  /\ \E fbOk \in BOOLEAN :
       IF fbOk
       THEN /\ product_feedback' = Append(product_feedback,
                   FeedbackRow(product_name, user_query, feedback_type, source))
            /\ IF feedback_type = "perfect_match"
               THEN \E score \in Scores :
                      LET e == detect_emotion(user_query, score).label IN
                      \E dbOk \in BOOLEAN :
                        /\ SavePatternAlone(user_query, e, <<source>>, dbOk)
                        /\ fb' = FeedbackDone(product_name, user_query, feedback_type, source,
                                              score, e, 1, dbOk)
               ELSE /\ fb' = FeedbackDone(product_name, user_query, feedback_type, source,
                                          NoScore, "", 0, FALSE)
                    /\ UNCHANGED <<patterns, clock>>
       ELSE /\ fb' = FeedbackFailed(product_name, user_query, feedback_type, source)
            /\ UNCHANGED <<product_feedback, patterns, clock>>
  /\ FeedbackFrame

\* save_product_feedback without its try/except: a failed INSERT leaves the call.
save_product_feedback_Unguarded(product_name, user_query, feedback_type, source) ==
  /\ Len(product_feedback) < MaxFeedback
  /\ \E fbOk \in BOOLEAN :
       IF fbOk
       THEN /\ product_feedback' = Append(product_feedback,
                   FeedbackRow(product_name, user_query, feedback_type, source))
            /\ IF feedback_type = "perfect_match"
               THEN \E score \in Scores :
                      LET e == detect_emotion(user_query, score).label IN
                      \E dbOk \in BOOLEAN :
                        /\ SavePatternAlone(user_query, e, <<"general">>, dbOk)
                        /\ fb' = FeedbackDone(product_name, user_query, feedback_type, source,
                                              score, e, 1, dbOk)
               ELSE /\ fb' = FeedbackDone(product_name, user_query, feedback_type, source,
                                          NoScore, "", 0, FALSE)
                    /\ UNCHANGED <<patterns, clock>>
       ELSE /\ fb' = [FeedbackFailed(product_name, user_query, feedback_type, source)
                        EXCEPT !.raised = TRUE]
            /\ UNCHANGED <<product_feedback, patterns, clock>>
  /\ FeedbackFrame

\* save_product_feedback: the INSERT and commit; then, for "perfect_match",
\* detect_emotion and save_successful_pattern; True.  An error at the INSERT
\* or the commit ends the call in the except clause: False.
save_product_feedback(product_name, user_query, feedback_type, source) ==
  /\ Len(product_feedback) < MaxFeedback
  /\ \E fbOk \in BOOLEAN :
       IF fbOk
       THEN /\ product_feedback' = Append(product_feedback,
                   FeedbackRow(product_name, user_query, feedback_type, source))
            /\ IF feedback_type = "perfect_match"
               THEN \E score \in Scores :
                      LET e == detect_emotion(user_query, score).label IN
                      \E dbOk \in BOOLEAN :
                        /\ SavePatternAlone(user_query, e, <<"general">>, dbOk)
                        /\ fb' = FeedbackDone(product_name, user_query, feedback_type, source,
                                              score, e, 1, dbOk)
               ELSE /\ fb' = FeedbackDone(product_name, user_query, feedback_type, source,
                                          NoScore, "", 0, FALSE)
                    /\ UNCHANGED <<patterns, clock>>
       ELSE /\ fb' = FeedbackFailed(product_name, user_query, feedback_type, source)
            /\ UNCHANGED <<product_feedback, patterns, clock>>
  /\ FeedbackFrame

NextFeedback ==
  \E q \in FeedbackQueries, v \in Verdicts, src \in FeedbackSources :
    save_product_feedback("Gift box", q, v, src)

\* A fresh database; feedback calls one after another.
SpecFeedback == InitStore /\ [][NextFeedback]_vars

\* ------------------------------------------------ the adapters on their own
\* What a source sends back to one request: a failure, or up to MaxSent items,
\* whatever limit the request carried.
Sent == {[ok |-> FALSE, n |-> 0]} \cup {[ok |-> TRUE, n |-> k] : k \in 0..MaxSent}

\* The limits the program passes: limit=2, limit=3, limit=6.
Limits == {Limit2, Limit3, Limit6}

\* One behaviour is one call of one adapter.
AdapterFrame ==
  /\ adapter_call = NoAdapterCall
  /\ UNCHANGED <<business_products, patterns, searchVars, saveVars, feedbackVars, emotion_call>>

\* The record of one call: r is what the function returned.
Returned(fn, limit, failed, r, count) ==
  [fn |-> fn, query |-> <<>>, emotion |-> "", limit |-> limit, failed |-> failed,
   out |-> r.val, count |-> count, raised |-> r.raised]

CallBusiness ==
  /\ AdapterFrame
  /\ \E e \in Emotions, q \in SearchQueries, dbOk \in BOOLEAN :
       adapter_call' = Returned("search_business_products", Limit6, ~dbOk,
                                search_business_products(e, q, business_products, dbOk), 0)

CallSemantic ==
  /\ AdapterFrame
  /\ \E limit \in Limits, up \in Sent :
       adapter_call' = Returned("semantic_product_search", limit, ~up.ok,
                                semantic_product_search(QGift, limit, up), 0)

CallWeb ==
  /\ AdapterFrame
  /\ \E limit \in Limits, up \in Sent :
       adapter_call' = Returned("search_web_products", limit, ~up.ok,
                                search_web_products(QGift, limit, up), 0)

CallDummy ==
  /\ AdapterFrame
  /\ \E limit \in Limits, category \in {"", "beauty"}, up \in Sent :
       adapter_call' = Returned("fetch_products_dummyjson", limit, ~up.ok,
                                fetch_products_dummyjson(<<>>, category, limit, up), 0)

CallFake ==
  /\ AdapterFrame
  /\ \E limit \in Limits, category \in {"", "beauty"}, up \in Sent :
       adapter_call' = Returned("fetch_products_fakestore", limit, ~up.ok,
                                fetch_products_fakestore(<<>>, category, limit, up), 0)

\* The adapter returns a pair; out holds its list.
CallContext ==
  /\ AdapterFrame
  /\ \E e \in Emotions, comp \in Completion,
        upA \in [1..2 -> Upstream], upB \in [1..2 -> Upstream] :
       LET r == context_aware_ai_search(e, QGift, comp, upA, upB) IN
       adapter_call' = Returned("context_aware_ai_search", Limit6, ~comp.ok,
                                [raised |-> r.raised, val |-> r.val.products], 0)

\* The queries the lookup is called with: no word, a word no pattern holds,
\* "Gift", "Gift a" (two words, each in another pattern), and "g_ft".
QGiftA == <<"G", "i", "f", "t", " ", "a">>
QWild == <<"g", "_", "f", "t">>
LookupQueries == {QEmpty, QXy, QGift, QGiftA, QWild}

\* out holds the categories of the dict, count its success_count.
CallLookup ==
  /\ AdapterFrame
  /\ \E e \in Emotions, q \in LookupQueries, dbOk \in BOOLEAN :
     \E h \in get_successful_recommendations(patterns, q, e, dbOk) :
       adapter_call' = [Returned("get_successful_recommendations", 1, ~dbOk,
                                 Ret(h.categories), h.success_count)
                          EXCEPT !.query = q, !.emotion = e]

NextAdapters ==
  \/ CallBusiness
  \/ CallSemantic
  \/ CallWeb
  \/ CallDummy
  \/ CallFake
  \/ CallContext
  \/ CallLookup

\* Any catalog and any store, and any one adapter called on it.
SpecAdapters == Init /\ [][NextAdapters]_vars

\* ------------------------------ get_successful_recommendations on its own
\* The rows save_successful_pattern may have written for "Gift" and for
\* "a b c d": either emotion, either of two category lists, any count, at
\* one of two times.
LookupRows ==
  { PatternRow(QueryPattern(q), e, JoinComma(cats), c, t) :
      q \in {QGift, QFour}, e \in Emotions, cats \in {<<"general">>, <<"beauty">>},
      c \in 1..MaxCount, t \in 1..2 }

\* The stores the lookup may find: up to two rows.
LookupStores == {<<>>} \cup { <<r>> : r \in LookupRows } \cup (LookupRows \X LookupRows)

InitLookup ==
  /\ IdleSaves
  /\ IdleOthers
  /\ business_products = CatalogEmpty
  /\ patterns \in LookupStores
  /\ analytics = <<>>
  /\ dropped = 0
  /\ pc = "idle"
  /\ query = <<>>
  /\ emotion = "happy"
  /\ calls = <<>>
  /\ result = NoResult

\* Any such store, and one lookup on it.
SpecLookup == InitLookup /\ [][CallLookup]_vars

\* ------------------------------------------------ detect_emotion on its own
\* The eight labels detect_emotion returns.
EmotionLabels ==
  {"excited", "happy", "stressed", "frustrated", "tired", "sad", "confused", "neutral"}

\* The texts detect_emotion is called with: no lexicon word, one lexicon's
\* word, words of two lexicons, upper case, and "worn out" with one space
\* and with two.
QAmazing == <<"A", "m", "a", "z", "i", "n", "g">>
QTiredBusy == <<"t", "i", "r", "e", "d", " ", "b", "u", "s", "y">>
EmotionTexts ==
  { QEmpty, QGift, QTired, QAmazing, QTiredBusy,
    <<"b", "u", "s", "y">>,
    <<"u", "p", "s", "e", "t">>,
    <<"w", "o", "r", "n", " ", "o", "u", "t">>,
    <<"w", "o", "r", "n", " ", " ", "o", "u", "t">>,
    <<"b", "u", "s", "y", " ", "t", "i", "r", "e", "d">>,
    <<"t", "i", "r", "e", "d", " ", "u", "p", "s", "e", "t">>,
    <<"u", "p", "s", "e", "t", " ", "b", "u", "s", "y">>,
    <<"A", "m", "a", "z", "i", "n", "g", " ", "b", "u", "s", "y">> }

\* One behaviour is one call of detect_emotion, the scorer answering anything.
CallEmotion ==
  /\ emotion_call = NoEmotionCall
  /\ \E text \in EmotionTexts, score \in Scores :
       LET r == detect_emotion(text, score) IN
       emotion_call' = [text |-> text, score |-> score, label |-> r.label,
                        confidence |-> r.confidence, raised |-> FALSE]
  /\ UNCHANGED <<business_products, patterns, searchVars, saveVars, feedbackVars,
                 adapter_call>>

SpecEmotion == InitStore /\ [][CallEmotion]_vars

\* ------------------------------------------------ reading the call trace
StepNo(p) ==
  CASE p = "idle" -> 0
    [] p = "step1" -> 1
    [] p = "step2" -> 2
    [] p = "step3" -> 3
    [] p = "step4" -> 4
    [] p = "step5" -> 5
    [] p = "step6" -> 6
    [] p = "step7" -> 7
    [] OTHER -> 8

LogFn == "log_recommendation_analytics"

\* The step the call stands at, or the one it returned from.
Reached == IF pc = "returned" THEN calls[Len(calls)].step ELSE StepNo(pc)

\* The function a strategy calls first.
AdapterOf(s) ==
  CASE s = 1 -> "search_business_products"
    [] s = 2 -> "get_successful_recommendations"
    [] s = 3 -> "semantic_product_search"
    [] s = 4 -> "search_web_products"
    [] s = 5 -> "context_aware_ai_search"
    [] s = 6 -> "generate_content"
    [] s = 7 -> "fetch_products_dummyjson"

Attempted(s) == \E i \in 1..Len(calls) : calls[i].step = s /\ calls[i].fn = AdapterOf(s)

\* The calls of a step that return products.
ProductCalls(s) ==
  { i \in 1..Len(calls) :
      /\ calls[i].step = s
      /\ calls[i].fn \notin {"get_successful_recommendations", "generate_content", LogFn} }

RECURSIVE SumN(_)
SumN(I) == IF I = {} THEN 0 ELSE LET i == CHOOSE x \in I : TRUE IN calls[i].n + SumN(I \ {i})

\* How many products the adapters of a step returned in all.
ProductsAt(s) == SumN(ProductCalls(s))

\* The gates of section 4.4: step 3 needs a trimmed query longer than 3,
\* step 4 one that is not empty.
Gated(s) ==
  CASE s = 3 -> Len(Strip(query)) > 3
    [] s = 4 -> Len(Strip(query)) > 0
    [] OTHER -> TRUE

\* The termination conditions of section 4.4.
TerminationMet(s) ==
  CASE s \in {3, 4} -> ProductsAt(s) >= 3
    [] s = 7 -> TRUE
    [] OTHER -> ProductsAt(s) > 0

\* The method name each terminal transition logs.
StrategyName(s, n) ==
  CASE s = 1 -> "Local Business"
    [] s = 2 -> "Historical Pattern"
    [] s = 3 -> "Semantic AI"
    [] s = 4 -> "Web Search"
    [] s = 5 -> "Context AI"
    [] s = 6 -> "AI Fallback"
    [] s = 7 -> IF n > 0 THEN "Safety Fallback" ELSE "No Results"

LogCalls == { i \in 1..Len(calls) : calls[i].fn = LogFn }

\* ------------------------------------------------------------------ claims
\* C1: the strategies are attempted in the fixed order 1..7 only: the calls
\* of a call never go back to an earlier step; a strategy's adapter is called
\* only if its gate holds and every earlier strategy was attempted, or gated
\* off, and did not meet its termination condition; and as soon as a
\* strategy's termination condition is met the call has returned from that
\* strategy, so no later strategy's adapter is called.
C1_FixedOrder ==
  /\ \A i \in 1..(Len(calls) - 1) : calls[i].step <= calls[i + 1].step
  /\ \A s \in 1..7 :
       Attempted(s) =>
         /\ s <= Reached
         /\ Gated(s)
         /\ \A t \in 1..(s - 1) : (Gated(t) => Attempted(t)) /\ ~TerminationMet(t)
  /\ \A s \in 1..7 :
       (Attempted(s) /\ TerminationMet(s)) => pc = "returned" /\ Reached = s

\* A call that went through all seven strategies.
C1_Witness == pc = "returned" /\ \A s \in 1..7 : Attempted(s)

\* C2 as claimed: a returned call has left exactly one record in the sink,
\* named after the strategy that ended the chain.
C2_ExactlyOneRecord ==
  pc = "returned" =>
    /\ Len(analytics) = 1
    /\ analytics[1].recommendation_method = StrategyName(Reached, Len(result.products))

\* C2 amended: every call makes exactly one analytics write, its last action
\* before returning, named after the strategy that ended the chain; the sink
\* holds that one record when the write succeeded and none when it failed
\* (never two), and nothing is written before the chain ends.
C2_OneWritePerCall ==
  /\ pc # "returned" => analytics = <<>> /\ dropped = 0 /\ LogCalls = {}
  /\ pc = "returned" =>
       /\ LogCalls = {Len(calls)}
       /\ Len(analytics) + dropped = 1
       /\ \A i \in 1..Len(analytics) :
            analytics[i].recommendation_method = StrategyName(Reached, Len(result.products))

\* A call that ended at Web Search and whose record is in the sink.
C2_Witness ==
  /\ pc = "returned"
  /\ Len(analytics) = 1
  /\ analytics[1].recommendation_method = "Web Search"

\* C3: once the Local Business adapter has returned a product, the call has
\* returned exactly that adapter's list with the Local Business rationale and
\* method, having called nothing else but the analytics write.
C3_LocalPriority ==
  (Len(calls) >= 1 /\ calls[1].fn = "search_business_products" /\ calls[1].n >= 1) =>
    /\ pc = "returned"
    /\ Len(calls) = 2
    /\ calls[2].fn = LogFn
    /\ result.products = search_business_products(emotion, query, business_products, TRUE).val
    /\ result.rationale = RationaleLocal
    /\ \A i \in 1..Len(analytics) : analytics[i].recommendation_method = "Local Business"

\* One local product wins although a pattern used three times matches the query.
C3_Witness ==
  /\ pc = "returned"
  /\ calls[1].n = 1
  /\ PatternBest(patterns, query, emotion) # {}
  /\ patterns[1].success_count > 2

\* C4: a lookup that returns success_count <= 2 is followed by no catalog
\* fan-out and the call does not end at Historical Pattern; a lookup that
\* returns 3 or more, with a fan-out that brought a product, ends the call at
\* Historical Pattern.
C4_Threshold ==
  \A i \in 1..Len(calls) :
    calls[i].fn = "get_successful_recommendations" =>
      /\ calls[i].n <= 2 =>
           /\ ProductCalls(2) = {}
           /\ ~(pc = "returned" /\ Reached = 2)
      /\ (calls[i].n >= 3 /\ ProductsAt(2) > 0) =>
           /\ pc = "returned"
           /\ Reached = 2
           /\ result.rationale = RationalePattern

\* A matching row with success_count 2 was found and the chain went on.
C4_Witness ==
  /\ pc = "returned"
  /\ Reached > 2
  /\ \E i \in 1..Len(calls) :
       calls[i].fn = "get_successful_recommendations" /\ calls[i].n = 2

\* C5 as claimed: when no save is under way, every key holds a row whose
\* success_count is the number of save_successful_pattern calls committed for
\* that key.
C5_NoLostUpdate ==
  NoSaveUnderWay =>
    \A k \in Keys :
      completed[k].n > 0 =>
        \E id \in RowsOf(patterns, k) : patterns[id].success_count = completed[k].n

\* C6: with calls made one after the other, a key that n calls were committed
\* for has exactly one row, whose counter is n and whose timestamp is that of
\* the last of them; a key never saved has no row; the patterns stored are the
\* first three lowercased words.
C6_SequentialUpsert ==
  NoSaveUnderWay =>
    /\ \A k \in Keys :
         /\ Cardinality(RowsOf(patterns, k)) = IF completed[k].n = 0 THEN 0 ELSE 1
         /\ \A id \in RowsOf(patterns, k) :
              /\ patterns[id].success_count = completed[k].n
              /\ patterns[id].last_success = completed[k].stamp
    /\ \A id \in 1..Len(patterns) :
         patterns[id].query_pattern \in {<<"a", " ", "b", " ", "c">>, <<"g", "i", "f", "t">>}

\* Two or more calls for one key, one row, the counter at their number.
C6_Witness ==
  /\ NoSaveUnderWay
  /\ \E k \in Keys :
       /\ completed[k].n >= 2
       /\ \E id \in RowsOf(patterns, k) : patterns[id].success_count = completed[k].n

\* C7: no exception leaves neurochat_product_search, and what it returns is a
\* product list with one of its eight rationales.
C7_NeverRaises ==
  /\ pc # "raised"
  /\ pc = "returned" =>
       result.rationale \in {RationaleLocal, RationalePattern, RationaleSemantic, RationaleWeb,
                             RationaleContext, RationaleFallback, RationaleSafety,
                             RationaleLearning}

\* A call returned although the completion service failed in step 6 (no
\* catalog was asked there) and the analytics write failed.
C7_Witness ==
  /\ pc = "returned"
  /\ dropped = 1
  /\ \E i \in 1..(Len(calls) - 1) :
       calls[i].fn = "generate_content" /\ calls[i + 1].step = 7

\* Every adapter of the chain was asked and none returned a product.
AllEmpty ==
  /\ pc = "returned"
  /\ Reached = 7
  /\ \A s \in 1..7 : ProductsAt(s) = 0

\* C8 as claimed: the exhausted chain returns the empty list with the "still
\* learning" rationale and leaves one record, No Results with count 0.
C8_OneNoResultsRecord ==
  AllEmpty =>
    /\ result = [products |-> <<>>, rationale |-> RationaleLearning]
    /\ Len(analytics) = 1
    /\ analytics[1].recommendation_method = "No Results"
    /\ analytics[1].products_found = 0

\* C8 amended: the exhausted chain returns the empty list with the "still
\* learning" rationale and makes one analytics write, of count 0; the record,
\* No Results with count 0, is in the sink unless that write failed.
C8_ExhaustedChain ==
  AllEmpty =>
    /\ result = [products |-> <<>>, rationale |-> RationaleLearning]
    /\ LogCalls = {Len(calls)}
    /\ calls[Len(calls)].n = 0
    /\ Len(analytics) + dropped = 1
    /\ \A i \in 1..Len(analytics) :
         /\ analytics[i].recommendation_method = "No Results"
         /\ analytics[i].products_found = 0

\* The exhausted chain with its record written.
C8_Witness == AllEmpty /\ Len(analytics) = 1 /\ Attempted(3) /\ Attempted(4)

\* C9: every step of a call moves it forward in the order idle, step 1..7,
\* returned, so a call takes at most seven strategy steps and never goes back;
\* and a call that has begun returns.
C9_Terminates ==
  /\ [][StepNo(pc') > StepNo(pc)]_vars
  /\ (pc = "step1") ~> (pc = "returned")

\* A call that returned only at the seventh step.
C9_Witness == pc = "returned" /\ Reached = 7

\* The local catalog and the pattern history are empty and the query is "xy",
\* bare or padded with blanks.
ShortQueryCase ==
  /\ pc # "idle"
  /\ business_products = <<>>
  /\ patterns = <<>>
  /\ query \in {QXy, QXyPadded}

\* C10: in that case Semantic Generation is never called, Web Search has been
\* called once the call is past step 4, and the call that follows a Web Search
\* returning fewer than 3 products is the Context-Aware adapter's.
C10_ShortQuery ==
  ShortQueryCase =>
    /\ \A i \in 1..Len(calls) : calls[i].fn # "semantic_product_search"
    /\ StepNo(pc) >= 5 => \E i \in 1..Len(calls) : calls[i].fn = "search_web_products"
    /\ \A i \in 1..Len(calls) :
         (calls[i].fn = "search_web_products" /\ calls[i].n < 3) =>
           IF i = Len(calls) THEN pc = "step5"
           ELSE calls[i + 1].fn = "context_aware_ai_search"

\* Web Search returned 2 products for the padded "xy" and Context-Aware came next.
C10_Witness ==
  /\ ShortQueryCase
  /\ query = QXyPadded
  /\ \E i \in 1..(Len(calls) - 1) :
       /\ calls[i].fn = "search_web_products"
       /\ calls[i].n = 2
       /\ calls[i + 1].fn = "context_aware_ai_search"

\* The places in the trace where fn was called.
CallsOf(fn) == { i \in 1..Len(calls) : calls[i].fn = fn }

\* The call at place i ended the chain: the analytics write and the return follow it.
EndsChain(i) == pc = "returned" /\ Len(calls) = i + 1 /\ calls[i + 1].fn = LogFn

\* The call at place i did not end the chain and what comes next, if anything
\* has come yet, is a call of fn.
GoesOnTo(i, fn) ==
  /\ pc = "returned" => Len(calls) > i + 1
  /\ Len(calls) > i => calls[i + 1].fn = fn

\* Step s is behind the call: it returned from s or a later step, or stands at a later one.
Passed(s) ==
  \/ pc = "returned" /\ Reached >= s
  \/ pc \in {"step1", "step2", "step3", "step4", "step5", "step6", "step7"} /\ StepNo(pc) > s

\* C11: semantic_product_search is called only at step 3 and only for a query
\* whose trimmed length exceeds 3, at most once; the call ends at Semantic AI
\* exactly when that adapter returned at least 3 products; with 0, 1 or 2
\* products the chain goes on and the next call is search_web_products.
C11_SemanticStep ==
  /\ Cardinality(CallsOf("semantic_product_search")) <= 1
  /\ \A i \in CallsOf("semantic_product_search") :
       /\ calls[i].step = 3
       /\ Len(Strip(query)) > 3
       /\ \A j \in 1..(i - 1) : calls[j].step < 3
       /\ IF calls[i].n >= 3 THEN EndsChain(i) ELSE GoesOnTo(i, "search_web_products")
  /\ (pc = "returned" /\ Reached = 3) =>
       \E i \in CallsOf("semantic_product_search") : calls[i].n >= 3
  /\ (Passed(3) /\ Len(Strip(query)) > 3) => CallsOf("semantic_product_search") # {}

\* Semantic AI returned 2 products for "Gift" and the web search was called next.
C11_Witness ==
  \E i \in CallsOf("semantic_product_search") :
    /\ calls[i].n = 2
    /\ Len(calls) > i
    /\ calls[i + 1].fn = "search_web_products"

\* C12: search_web_products is called only at step 4 and only for a query that
\* is not empty once trimmed, at most once; the call ends at Web Search exactly
\* when that adapter returned at least 3 products; an empty or blank query
\* passes step 4 without the adapter being called.
C12_WebStep ==
  /\ Cardinality(CallsOf("search_web_products")) <= 1
  /\ \A i \in CallsOf("search_web_products") :
       /\ calls[i].step = 4
       /\ Strip(query) # <<>>
       /\ \A j \in 1..(i - 1) : calls[j].step < 4
       /\ IF calls[i].n >= 3 THEN EndsChain(i) ELSE GoesOnTo(i, "context_aware_ai_search")
  /\ (pc = "returned" /\ Reached = 4) =>
       \E i \in CallsOf("search_web_products") : calls[i].n >= 3
  /\ (Passed(4) /\ Strip(query) # <<>>) => CallsOf("search_web_products") # {}
  /\ (pc # "idle" /\ Strip(query) = <<>>) => CallsOf("search_web_products") = {}

\* The web search returned 3 products for the padded "xy" and ended the chain.
C12_Witness ==
  /\ query = QXyPadded
  /\ \E i \in CallsOf("search_web_products") : calls[i].n = 3 /\ EndsChain(i)

\* C13: whenever steps 1-4 did not end the chain context_aware_ai_search is
\* called, whatever the query (the empty one too), once; the call ends at
\* Context AI exactly when that adapter returned at least one product; with
\* none the chain goes on to step 6.
C13_ContextStep ==
  /\ Cardinality(CallsOf("context_aware_ai_search")) <= 1
  /\ \A i \in CallsOf("context_aware_ai_search") :
       /\ calls[i].step = 5
       /\ \A j \in 1..(i - 1) : calls[j].step < 5
       /\ IF calls[i].n >= 1 THEN EndsChain(i) ELSE GoesOnTo(i, "generate_content")
  /\ (pc = "returned" /\ Reached = 5) =>
       \E i \in CallsOf("context_aware_ai_search") : calls[i].n >= 1
  /\ Passed(5) => CallsOf("context_aware_ai_search") # {}

\* The empty query reached Context AI, which returned one product and ended the chain.
C13_Witness ==
  /\ query = QEmpty
  /\ \E i \in CallsOf("context_aware_ai_search") : calls[i].n = 1 /\ EndsChain(i)

\* The places in the trace where step s called fn.
StepCalls(s, fn) == { i \in CallsOf(fn) : calls[i].step = s }

\* C14: in step 6 the completion service is asked first; the category it
\* chose is asked of fetch_products_dummyjson next, with limit 6;
\* fetch_products_fakestore is asked, for the same category, only right after
\* a fetch_products_dummyjson that returned nothing; the call ends at AI
\* Fallback exactly when one of the two returned products, and otherwise, as
\* when the completion service fails, step 7's unfiltered catalog call follows.
C14_FallbackStep ==
  /\ Cardinality(StepCalls(6, "generate_content")) <= 1
  /\ \A i \in StepCalls(6, "generate_content") :
       /\ pc = "returned" => Len(calls) > i + 1
       /\ Len(calls) > i =>
            /\ calls[i + 1].fn = "fetch_products_dummyjson"
            /\ \/ calls[i + 1].step = 7 /\ calls[i].category = ""
               \/ /\ calls[i + 1].step = 6
                  /\ calls[i].category # ""
                  /\ calls[i + 1].category = calls[i].category
                  /\ calls[i + 1].limit = Limit6
  /\ \A j \in StepCalls(6, "fetch_products_dummyjson") :
       /\ j > 1 /\ calls[j - 1].fn = "generate_content"
       /\ IF calls[j].n > 0 THEN EndsChain(j)
          ELSE /\ GoesOnTo(j, "fetch_products_fakestore")
               /\ Len(calls) > j => calls[j + 1].step = 6
  /\ \A k \in StepCalls(6, "fetch_products_fakestore") :
       /\ k > 1 /\ calls[k - 1].fn = "fetch_products_dummyjson"
       /\ calls[k - 1].step = 6 /\ calls[k - 1].n = 0
       /\ calls[k].category = calls[k - 1].category
       /\ IF calls[k].n > 0 THEN EndsChain(k)
          ELSE /\ GoesOnTo(k, "fetch_products_dummyjson")
               /\ Len(calls) > k => calls[k + 1].step = 7
  /\ (pc = "returned" /\ Reached = 6) =>
       \E i \in 1..Len(calls) :
         /\ calls[i].step = 6
         /\ calls[i].fn \in {"fetch_products_dummyjson", "fetch_products_fakestore"}
         /\ calls[i].n > 0
  /\ Passed(6) => StepCalls(6, "generate_content") # {}

\* Catalog A had nothing for the chosen category, Catalog B had, and the call
\* ended at AI Fallback.
C14_Witness ==
  \E k \in StepCalls(6, "fetch_products_fakestore") :
    /\ calls[k - 1].n = 0
    /\ calls[k].n > 0
    /\ calls[k].category = calls[k - 2].category
    /\ EndsChain(k)
    /\ analytics # <<>> /\ analytics[1].recommendation_method = "AI Fallback"

\* What the fan-out calls at places i+1..i+m of the trace returned, combined.
RECURSIVE Combined(_, _)
Combined(i, m) ==
  IF m = 0 THEN <<>>
  ELSE Combined(i, m - 1) \o Products(TagDummy, calls[i + m].n)

\* C15: when the lookup of step 2 finds a row with success_count > 2 the
\* calls that follow it in step 2 are fetch_products_dummyjson with limit 3
\* for the first two stored categories (the only one, if one is stored), in
\* stored order, and nothing else; when what they returned is not empty taken
\* together the call ends at Historical Pattern and returns the first 6 (all,
\* if fewer) of the combination in that order.
C15_PatternFanOut ==
  \A i \in StepCalls(2, "get_successful_recommendations") :
    (calls[i].n > PatternThreshold /\ (pc = "returned" \/ StepNo(pc) > 2)) =>
      \E id \in PatternBest(patterns, query, emotion) :
        LET stored == SplitComma(patterns[id].successful_categories)
            m == Min(Len(stored), 2)
        IN /\ Len(calls) >= i + m
           /\ \A k \in 1..m :
                /\ calls[i + k].step = 2
                /\ calls[i + k].fn = "fetch_products_dummyjson"
                /\ calls[i + k].category = stored[k]
                /\ calls[i + k].limit = Limit3
           /\ StepCalls(2, "fetch_products_dummyjson") = (i + 1)..(i + m)
           /\ IF Combined(i, m) # <<>>
              THEN /\ EndsChain(i + m)
                   /\ result.products = Take(Combined(i, m), Limit6)
                   /\ Len(result.products) <= Limit6
              ELSE pc = "returned" => Reached > 2

\* A row of three categories with success_count > 2: two catalog calls were
\* made, for "beauty" then "laptops", they returned 4 products each, and the
\* call returned 6 of the 8.
C15_Witness ==
  /\ pc = "returned"
  /\ Reached = 2
  /\ \E i \in StepCalls(2, "get_successful_recommendations") :
       /\ Len(calls) = i + 3
       /\ calls[i + 1].category = "beauty" /\ calls[i + 1].n = 4
       /\ calls[i + 2].category = "laptops" /\ calls[i + 2].n = 4
  /\ Len(result.products) = Limit6

\* The function the chain calls first after step 2 when step 2 did not end it.
AfterStep2 ==
  IF Gated(3) THEN "semantic_product_search"
  ELSE IF Gated(4) THEN "search_web_products"
  ELSE "context_aware_ai_search"

\* C16: a call never returns from Historical Pattern with no product; when
\* the lookup found a row with success_count > 2 and the catalog calls of the
\* fan-out returned nothing, nothing is logged or returned at step 2, the call
\* stands at step 3 with the result and the analytics table untouched, and the
\* next call it makes is the one a call without a pattern makes there.
C16_PatternNeverEmpty ==
  /\ (pc = "returned" /\ Reached = 2) => result.products # <<>>
  /\ \A i \in StepCalls(2, "get_successful_recommendations") :
       LET m == Cardinality(StepCalls(2, "fetch_products_dummyjson")) IN
       (calls[i].n > PatternThreshold /\ (pc = "returned" \/ StepNo(pc) > 2)
          /\ Combined(i, m) = <<>>) =>
         /\ ~(pc = "returned" /\ Reached = 2)
         /\ Len(calls) = i + m => pc = "step3" /\ result = NoResult /\ analytics = <<>>
         /\ Len(calls) > i + m =>
              /\ calls[i + m + 1].step >= 3
              /\ calls[i + m + 1].fn = AfterStep2

\* A row with success_count > 2 was found for "Gift", both catalog calls of
\* the fan-out returned nothing, and semantic_product_search was called next.
C16_Witness ==
  \E i \in StepCalls(2, "get_successful_recommendations") :
    /\ calls[i].n > PatternThreshold
    /\ Cardinality(StepCalls(2, "fetch_products_dummyjson")) = 2
    /\ Combined(i, 2) = <<>>
    /\ Len(calls) > i + 2
    /\ calls[i + 3].fn = "semantic_product_search"

\* The functions that return products.
ProductAdapters ==
  {"search_business_products", "semantic_product_search", "search_web_products",
   "fetch_products_dummyjson", "fetch_products_fakestore", "context_aware_ai_search"}

\* C17: no adapter and no lookup raises to its caller, and when its source
\* fails (database, transport, status, parse, completion service) what it
\* returns is empty: the empty list, the empty dict.
C17_AdaptersSwallow ==
  /\ ~adapter_call.raised
  /\ adapter_call.failed => adapter_call.out = <<>> /\ adapter_call.count = 0

\* fetch_products_dummyjson was called, its request failed, and it returned
\* the empty list.
C17_Witness ==
  /\ adapter_call.fn = "fetch_products_dummyjson"
  /\ adapter_call.failed
  /\ ~adapter_call.raised
  /\ adapter_call.out = <<>>

\* C18: an adapter never returns more products than the limit it was given,
\* whatever its source sent; search_business_products and
\* context_aware_ai_search never return more than 6.
C18_AtMostLimit ==
  adapter_call.fn \in ProductAdapters => Len(adapter_call.out) <= adapter_call.limit

\* The source tag an adapter writes itself.
OwnTag(fn) ==
  CASE fn = "search_business_products" -> TagLocal
    [] fn = "semantic_product_search" -> TagSemantic
    [] fn = "search_web_products" -> TagWeb
    [] fn = "fetch_products_dummyjson" -> TagDummy
    [] fn = "fetch_products_fakestore" -> TagFake
    [] OTHER -> ""

\* C19: every product an adapter returns carries that adapter's own source
\* tag: the products of the five adapters that write a tag carry it, and no
\* product of context_aware_ai_search carries the tag of another adapter.
C19_OwnTag ==
  adapter_call.fn \in ProductAdapters =>
    \A i \in 1..Len(adapter_call.out) :
      IF adapter_call.fn = "context_aware_ai_search"
      THEN adapter_call.out[i].source \notin {TagLocal, TagSemantic, TagWeb, TagDummy, TagFake}
      ELSE adapter_call.out[i].source = OwnTag(adapter_call.fn)

\* The row a save_product_feedback call with the arguments held in f appends.
RowOf(f) == FeedbackRow(f.product_name, f.user_query, f.feedback_type, f.source)

\* What an accept does to the Pattern Store: one save_successful_pattern
\* call with the emotion detect_emotion gives for the query and ["general"],
\* which writes its row or, on a database error, nothing.
AcceptEffect ==
  /\ fb'.saves = 1
  /\ fb'.emotion = detect_emotion(fb'.user_query, fb'.polarity).label
  /\ \/ patterns' = patterns
     \/ \E id \in SelectExisting(patterns, KeyOf(fb'.user_query, fb'.emotion, <<"general">>)) :
          patterns' = WritePattern(patterns,
                                   KeyOf(fb'.user_query, fb'.emotion, <<"general">>),
                                   id, clock')

\* C20 as stated: every save_product_feedback call appends exactly one row to
\* product_feedback, whatever the verdict; an accept calls
\* save_successful_pattern exactly once with detect_emotion's label for the
\* query; any other verdict leaves successful_patterns as it was.
C20_AlwaysAppends ==
  [][ /\ product_feedback' = Append(product_feedback, RowOf(fb'))
      /\ IF fb'.feedback_type = "perfect_match"
         THEN AcceptEffect
         ELSE fb'.saves = 0 /\ patterns' = patterns ]_vars

\* C20, amended: a save_product_feedback call whose INSERT succeeds appends
\* exactly one row to product_feedback, whatever the verdict, and returns
\* True; it then calls save_successful_pattern exactly once if the verdict is
\* "perfect_match", with detect_emotion's label for the query, and for any
\* other verdict leaves successful_patterns as it was.  A call whose INSERT
\* fails appends nothing, calls nothing, leaves successful_patterns as it was
\* and returns False.
C20_AppendsWhenWritten ==
  [][ IF fb'.wrote
      THEN /\ product_feedback' = Append(product_feedback, RowOf(fb'))
           /\ fb'.ret
           /\ IF fb'.feedback_type = "perfect_match"
              THEN AcceptEffect
              ELSE fb'.saves = 0 /\ patterns' = patterns
      ELSE /\ product_feedback' = product_feedback
           /\ patterns' = patterns
           /\ fb'.saves = 0
           /\ ~fb'.ret ]_vars

\* An accept on "so tired" scored -0.4 was stored, and its pattern row is
\* filed under the emotion tired.
C20_Witness ==
  /\ fb.wrote /\ fb.feedback_type = "perfect_match"
  /\ fb.user_query = QTired /\ fb.polarity = [ok |-> TRUE, polarity |-> -4]
  /\ fb.saves = 1 /\ fb.emotion = "tired"
  /\ product_feedback # <<>>
  /\ product_feedback[Len(product_feedback)] = RowOf(fb)
  /\ \E id \in 1..Len(patterns) :
       patterns[id].emotion = "tired" /\ patterns[id].query_pattern = QTired

\* C21: save_product_feedback never raises: it returns True when its INSERT
\* was committed, also when the write of save_successful_pattern that
\* followed failed, and False when the INSERT failed.
C21_FeedbackNeverRaises ==
  /\ ~fb.raised
  /\ fb.ret \in BOOLEAN
  /\ fb # NoFeedback => (fb.ret <=> fb.wrote)
  /\ (fb.saves = 1 /\ ~fb.saved) => fb.ret

\* An accept was stored, the write of its save_successful_pattern call
\* failed (successful_patterns is still empty), and the call returned True.
C21_Witness ==
  /\ fb.feedback_type = "perfect_match"
  /\ fb.wrote /\ fb.saves = 1 /\ ~fb.saved
  /\ patterns = <<>>
  /\ fb.ret /\ ~fb.raised

\* The lists the adapters of step s returned, one after the other in the
\* order of the calls.
RECURSIVE OutsFrom(_, _)
OutsFrom(s, i) ==
  IF i > Len(calls) THEN <<>>
  ELSE IF calls[i].step = s THEN calls[i].out \o OutsFrom(s, i + 1)
  ELSE OutsFrom(s, i + 1)

\* The pair a call that ended at step s hands back, from what the adapters
\* of that step returned: their products (the first six of them at step 2),
\* and the rationale of the step.
OutcomeOf(s) ==
  LET outs == OutsFrom(s, 1) IN
  [products |-> IF s = 2 THEN Take(outs, Limit6) ELSE outs,
   rationale |-> CASE s = 1 -> RationaleLocal
                   [] s = 2 -> RationalePattern
                   [] s = 3 -> RationaleSemantic
                   [] s = 4 -> RationaleWeb
                   [] s = 5 -> RationaleContext
                   [] s = 6 -> RationaleFallback
                   [] s = 7 -> IF outs # <<>> THEN RationaleSafety ELSE RationaleLearning]

\* C22: the pair neurochat_product_search returns is the one its adapters'
\* outputs determine, whether the analytics write of the call succeeded or
\* failed; a get_successful_recommendations whose database access fails
\* answers 'nothing found', and after a lookup that found nothing no catalog
\* is asked at step 2 and the chain goes on.
C22_FailuresInvisible ==
  /\ pc = "returned" => result = OutcomeOf(Reached)
  /\ \A q \in SearchQueries, e \in Emotions :
       get_successful_recommendations(patterns, q, e, FALSE) = {NotFound}
  /\ \A i \in CallsOf("get_successful_recommendations") :
       calls[i].n = 0 => /\ ProductCalls(2) = {}
                         /\ Reached # 2

\* A call over a store that holds a pattern for its query and emotion came
\* back with products of a later strategy: its lookup failed and answered
\* 'nothing found', and its analytics write was refused.
C22_Witness ==
  /\ pc = "returned"
  /\ dropped = 1 /\ analytics = <<>>
  /\ result.products # <<>>
  /\ Reached > 2
  /\ \E i \in CallsOf("get_successful_recommendations") : calls[i].n = 0
  /\ get_successful_recommendations(patterns, query, emotion, TRUE) # {NotFound}

\* The lexicons with a word in the text of the detect_emotion call.
HasWord(words) == AnyWordIn(words, Lower(emotion_call.text))

\* C23: detect_emotion is total and its label follows the rules in order,
\* as a function of the polarity and of the lexicons present: above 0.3
\* excited with an excitement word, else happy; below -0.3 stressed, else
\* frustrated, else tired, by lexicon in that priority, else sad; from -0.3
\* to below -0.1 confused; neutral otherwise; always one of the eight labels.
C23_RulesInOrder ==
  LET p == emotion_call.score.polarity
      label == emotion_call.label
  IN (emotion_call # NoEmotionCall /\ emotion_call.score.ok) =>
       /\ ~emotion_call.raised
       /\ label \in EmotionLabels
       /\ (p > 3 /\ HasWord(ExcitedWords)) => label = "excited"
       /\ (p > 3 /\ ~HasWord(ExcitedWords)) => label = "happy"
       /\ (p < -3 /\ HasWord(StressWords)) => label = "stressed"
       /\ (p < -3 /\ ~HasWord(StressWords) /\ HasWord(FrustratedWords)) => label = "frustrated"
       /\ (p < -3 /\ ~HasWord(StressWords) /\ ~HasWord(FrustratedWords)
             /\ HasWord(TiredWords)) => label = "tired"
       /\ (p < -3 /\ ~HasWord(StressWords) /\ ~HasWord(FrustratedWords)
             /\ ~HasWord(TiredWords)) => label = "sad"
       /\ (-3 <= p /\ p < -1) => label = "confused"
       /\ (-1 <= p /\ p <= 3) => label = "neutral"

\* A text with a fatigue word before a stress word, scored -0.4, is stressed.
C23_Witness ==
  /\ emotion_call.text = QTiredBusy
  /\ emotion_call.score = [ok |-> TRUE, polarity |-> -4]
  /\ emotion_call.label = "stressed"

\* C24: polarity exactly 0.3 is neutral, exactly -0.3 is confused, exactly
\* -0.1 is neutral; the confidence is abs(polarity) for every label but
\* neutral and 0.3 for neutral, and lies between 0 and 1; a scorer failure
\* gives neutral with 0.3.  Tenths: 0.3 is 3, 1 is 10.
C24_BoundsAndConfidence ==
  LET p == emotion_call.score.polarity
      label == emotion_call.label
      confidence == emotion_call.confidence
  IN emotion_call # NoEmotionCall =>
       /\ (emotion_call.score.ok /\ p = 3) => label = "neutral"
       /\ (emotion_call.score.ok /\ p = -3) => label = "confused"
       /\ (emotion_call.score.ok /\ p = -1) => label = "neutral"
       /\ label # "neutral" => confidence = Abs(p)
       /\ label = "neutral" => confidence = NeutralConfidence
       /\ 0 <= confidence /\ confidence <= 10
       /\ ~emotion_call.score.ok => label = "neutral" /\ confidence = NeutralConfidence
       /\ ~emotion_call.raised

\* A text with an excitement word scored exactly 0.3 is neutral, at 0.3.
C24_Witness ==
  /\ emotion_call.text = QAmazing
  /\ emotion_call.score = [ok |-> TRUE, polarity |-> 3]
  /\ emotion_call.label = "neutral"
  /\ emotion_call.confidence = NeutralConfidence

\* The rows of the store with the emotion of the lookup whose query_pattern
\* holds a word of its query.
Qualifies(id) ==
  LET words == Split(Lower(adapter_call.query)) IN
  /\ patterns[id].emotion = adapter_call.emotion
  /\ \E k \in 1..Len(words) : Contains(patterns[id].query_pattern, words[k])

Qualifying == { id \in 1..Len(patterns) : Qualifies(id) }

\* No qualifying row has a higher success_count, nor the same with a later
\* last_success.
BestQualifying ==
  { id \in Qualifying :
      \A other \in Qualifying :
        \/ patterns[other].success_count < patterns[id].success_count
        \/ /\ patterns[other].success_count = patterns[id].success_count
           /\ patterns[other].last_success <= patterns[id].last_success }

\* C25: a lookup whose database answers returns, of the rows with exactly
\* its emotion whose stored prefix contains a word of its query, the one
\* with the highest success_count, the latest last_success among equals;
\* and nothing when no row qualifies.
C25_LookupSelection ==
  (adapter_call.fn = "get_successful_recommendations" /\ ~adapter_call.failed) =>
     IF Qualifying = {}
     THEN adapter_call.out = NotFound.categories /\ adapter_call.count = 0
     ELSE \E id \in BestQualifying :
            /\ adapter_call.out = SplitComma(patterns[id].successful_categories)
            /\ adapter_call.count = patterns[id].success_count

\* C26: in every state of the Pattern Store every row has a success_count
\* of at least 1 and a non-empty list of categories, none of them empty; and
\* every step keeps every row in its place under its key, with a
\* success_count no lower than before: no row is deleted, no counter goes down.
C26_StoreInvariants ==
  /\ [](\A id \in 1..Len(patterns) :
          /\ patterns[id].success_count >= 1
          /\ patterns[id].successful_categories # <<>>
          /\ \A k \in 1..Len(SplitComma(patterns[id].successful_categories)) :
               SplitComma(patterns[id].successful_categories)[k] # "")
  /\ [][/\ Len(patterns') >= Len(patterns)
        /\ \A id \in 1..Len(patterns) :
             /\ patterns'[id].query_pattern = patterns[id].query_pattern
             /\ patterns'[id].emotion = patterns[id].emotion
             /\ patterns'[id].successful_categories = patterns[id].successful_categories
             /\ patterns'[id].success_count >= patterns[id].success_count]_vars

\* Three saves were committed: a row stands at 2 or more beside another row.
C26_Witness ==
  /\ Len(patterns) >= 2
  /\ \E id \in 1..Len(patterns) : patterns[id].success_count >= 2
  /\ clock = 4

\* C27: in the list context_aware_ai_search returns, no product of the
\* second catalog stands before a product of the first, also when two
\* categories were fanned out.
C27_ABeforeB ==
  adapter_call.fn = "context_aware_ai_search" =>
    \A i \in 1..Len(adapter_call.out), j \in 1..Len(adapter_call.out) :
      (adapter_call.out[i].source = TagFake /\ adapter_call.out[j].source = TagDummy)
        => j < i

\* C28: every product neurochat_product_search returns has a title of at
\* most 80 characters and a description of at most 200, whichever strategy
\* ended the chain and whatever the source or the local catalog supplied.
C28_FieldCaps ==
  pc = "returned" =>
    \A i \in 1..Len(result.products) :
      /\ result.products[i].title <= TitleCap
      /\ result.products[i].description <= DescriptionCap

C30_AlwaysGeneral ==
  \A id \in 1..Len(patterns) :
    /\ patterns[id].successful_categories = JoinComma(<<"general">>)
    /\ SplitComma(patterns[id].successful_categories) = <<"general">>

\* An accept of a product of the first static catalog was stored and its
\* pattern written: the row's category is 'general'.
C30_Witness ==
  /\ fb.feedback_type = "perfect_match" /\ fb.source = TagDummy
  /\ fb.wrote /\ fb.saved
  /\ \E id \in 1..Len(patterns) :
       /\ patterns[id].query_pattern = QueryPattern(fb.user_query)
       /\ patterns[id].emotion = fb.emotion
       /\ SplitComma(patterns[id].successful_categories) = <<"general">>

\* C31: whatever the interleaving of concurrent save_successful_pattern
\* calls, no two rows of the Pattern Store have the same query_pattern,
\* emotion and categories.
C31_UniqueKey ==
  \A id \in 1..Len(patterns), other \in 1..Len(patterns) :
    (/\ patterns[id].query_pattern = patterns[other].query_pattern
     /\ patterns[id].emotion = patterns[other].emotion
     /\ patterns[id].successful_categories = patterns[other].successful_categories)
      => id = other

\* The products the calls of step s returned.
ReturnedAt(s) ==
  UNION { { calls[i].out[k] : k \in 1..Len(calls[i].out) } :
            i \in { j \in 1..Len(calls) : calls[j].step = s } }

\* C32: every product neurochat_product_search returns was returned by an
\* adapter of the step that ended the chain, and there are no more of them
\* than that step gathered; the products Semantic Generation or Web Search
\* returned below their threshold appear in no later strategy's result.
C32_OneStrategyOnly ==
  pc = "returned" =>
    /\ \A k \in 1..Len(result.products) : result.products[k] \in ReturnedAt(Reached)
    /\ Len(result.products) <= Len(OutsFrom(Reached, 1))
    /\ Reached # 3 => \A k \in 1..Len(result.products) :
                        result.products[k].source # TagSemantic
    /\ Reached # 4 => \A k \in 1..Len(result.products) :
                        result.products[k].source # TagWeb

\* Semantic Generation returned two products and Web Search one, both below
\* the threshold; the call went on and returned a later strategy's products.
C32_Witness ==
  /\ pc = "returned"
  /\ Reached > 4
  /\ \E i \in CallsOf("semantic_product_search") : calls[i].n = 2
  /\ \E i \in CallsOf("search_web_products") : calls[i].n = 1
  /\ result.products # <<>>

\* C33: neurochat_product_search never returns more than 6 products,
\* whichever strategy ended the chain and whatever the catalogs sent.
C33_AtMostSix ==
  pc = "returned" => Len(result.products) <= Limit6

\* C34: neurochat_product_search returns an empty list only from its last
\* return statement, logged as "No Results" with the count 0; every other
\* return hands back a non-empty list and logs a count of at least 1 under
\* its own method name.
C34_EmptyOnlyNoResults ==
  pc = "returned" =>
    LET log == calls[Len(calls)] IN
    /\ result.products = <<>> <=> (Reached = 7 /\ log.n = 0)
    /\ result.products = <<>> => result.rationale = RationaleLearning
    /\ result.products # <<>> => log.n >= 1
    /\ analytics # <<>> =>
         /\ analytics[Len(analytics)].products_found = log.n
         /\ analytics[Len(analytics)].recommendation_method = "No Results"
              <=> result.products = <<>>

\* The unfiltered catalog answered at step 7: the call returned its products
\* and the record written says "Safety Fallback" with their number.
C34_Witness ==
  /\ pc = "returned"
  /\ Reached = 7
  /\ result.products # <<>>
  /\ analytics # <<>>
  /\ analytics[Len(analytics)].recommendation_method = "Safety Fallback"
  /\ analytics[Len(analytics)].products_found = Len(result.products)

\* C35: no step of neurochat_product_search changes the Pattern Store or the
\* feedback table: the orchestrator only reads successful_patterns.
C35_OrchestratorOnlyReads ==
  [][patterns' = patterns /\ product_feedback' = product_feedback]_vars

\* A call read a trusted pattern, returned at Historical Pattern, and the
\* store still holds that one row with the count it had.
C35_Witness ==
  /\ pc = "returned"
  /\ Reached = 2
  /\ \E i \in CallsOf("get_successful_recommendations") : calls[i].n = MaxCount
  /\ Len(patterns) = 1
  /\ patterns[1].success_count = MaxCount
  /\ product_feedback = <<>>

\* C36: when a save_successful_pattern(q, e, cats) call commits its write for
\* a query q of at least one word, get_successful_recommendations(q, e) finds
\* a pattern with a success_count of at least 1, and what
\* get_successful_recommendations(q, e2) answers for any other emotion e2 is
\* what it answered before the write.
C36_RoundTrip ==
  [][\A p \in Procs :
       (spc[p] = "write" /\ patterns' # patterns) =>
         \A a \in SaveArgs :
           (KeyOf(a[1], a[2], a[3]) = sarg[p] /\ Split(a[1]) # <<>>) =>
             /\ \A h \in get_successful_recommendations(patterns', a[1], a[2], TRUE) :
                  h.found /\ h.success_count >= 1
             /\ \A e2 \in EmotionLabels \ {a[2]} :
                  get_successful_recommendations(patterns', a[1], e2, TRUE)
                    = get_successful_recommendations(patterns, a[1], e2, TRUE)]_vars

\* "a b c d" was saved for happy and never for sad: the lookup of that query
\* finds the pattern "a b c" for happy and nothing for sad.
C36_Witness ==
  /\ NoSaveUnderWay
  /\ completed[KeyOf(QFour, "happy", <<"general">>)].n >= 1
  /\ completed[KeyOf(QFour, "sad", <<"general">>)].n = 0
  /\ \A h \in get_successful_recommendations(patterns, QFour, "happy", TRUE) :
       h.found /\ h.success_count >= 1
  /\ get_successful_recommendations(patterns, QFour, "sad", TRUE) = {NotFound}

\* C37: for a query with no word get_successful_recommendations answers
\* 'nothing found' whatever the store holds and whatever the database does;
\* a call with such a query asks no catalog at step 2 and never returns at
\* Historical Pattern, calls neither Semantic Generation nor Web Search, and
\* with an empty local catalog goes from the lookup straight to Context AI.
C37_BlankQuery ==
  /\ \A q \in {QEmpty, QBlank}, e \in Emotions, dbOk \in BOOLEAN :
       get_successful_recommendations(patterns, q, e, dbOk) = {NotFound}
  /\ (pc # "idle" /\ Split(query) = <<>>) =>
       /\ \A i \in CallsOf("get_successful_recommendations") : calls[i].n = 0
       /\ ProductCalls(2) = {}
       /\ ~(pc = "returned" /\ Reached = 2)
       /\ CallsOf("semantic_product_search") = {}
       /\ CallsOf("search_web_products") = {}
       /\ (business_products = CatalogEmpty /\ Len(calls) >= 3) =>
            /\ calls[1].fn = "search_business_products" /\ calls[1].n = 0
            /\ calls[2].fn = "get_successful_recommendations"
            /\ calls[3].fn = "context_aware_ai_search"

\* A blank query over an empty catalog and a store holding a trusted pattern
\* for its emotion: the third call is Context AI's.
C37_Witness ==
  /\ query = QBlank /\ pc # "idle"
  /\ business_products = CatalogEmpty
  /\ Len(patterns) = 1
  /\ patterns[1].emotion = emotion /\ patterns[1].success_count > PatternThreshold
  /\ Len(calls) >= 3
  /\ calls[3].fn = "context_aware_ai_search"

\* C38: a save_product_feedback call changes the Pattern Store only in a
\* call that has committed its feedback row, an accept; a call whose feedback
\* write fails makes no save_successful_pattern call, leaves both tables as
\* they were and returns False; a call whose save_successful_pattern fails
\* leaves its feedback row stored and returns True.
C38_FeedbackBeforePattern ==
  [][/\ patterns' # patterns =>
          /\ fb'.wrote /\ fb'.feedback_type = "perfect_match"
          /\ product_feedback' = Append(product_feedback, RowOf(fb'))
     /\ ~fb'.wrote =>
          /\ fb'.saves = 0
          /\ patterns' = patterns /\ product_feedback' = product_feedback
          /\ ~fb'.ret
     /\ (fb'.saves = 1 /\ ~fb'.saved) =>
          /\ patterns' = patterns
          /\ product_feedback' = Append(product_feedback, RowOf(fb'))
          /\ fb'.ret]_vars

\* After an accept that stored its row and its pattern, a second accept's
\* feedback write failed: it returned False and both tables hold one row.
C38_Witness ==
  /\ fb.feedback_type = "perfect_match"
  /\ ~fb.wrote /\ fb.saves = 0 /\ ~fb.ret
  /\ Len(product_feedback) = 1
  /\ Len(patterns) = 1

====
